---- MODULE Spec2Model ----
\* Template field-path extraction, sample-document assembly and JSON
\* validation of the PDF generator (sampleJsonGenerator.js, templateManager.js).
\*
\* JavaScript strings are modelled as sequences of one-character strings, so
\* that join, split, endsWith, slice, replace, includes, toLowerCase and the
\* default sort order are computed, not assumed.
EXTENDS Integers, Sequences, FiniteSets, TLC

\* ---------------------------------------------------------------- strings

\* The characters that occur in the model's strings, in UTF-16 code-unit
\* order (the order of Array.prototype.sort without a comparator).
Alphabet ==
  <<" ","-",".","/","0","1","2","3","4","5","6","7","8","9",":","@","A","B","C","D","E","F","G","H","I","J","K","L","M","N","O","P","Q","R","S","T","U","V","W","X","Y","Z","[","]","_","a","b","c","d","e","f","g","h","i","j","k","l","m","n","o","p","q","r","s","t","u","v","w","x","y","z">>

Code(c) == CHOOSE i \in 1..Len(Alphabet) : Alphabet[i] = c

UpperCase == <<"A","B","C","D","E","F","G","H","I","J","K","L","M","N","O","P","Q","R","S","T","U","V","W","X","Y","Z">>
LowerCase == <<"a","b","c","d","e","f","g","h","i","j","k","l","m","n","o","p","q","r","s","t","u","v","w","x","y","z">>

\* String.prototype.toLowerCase
ToLowerCase(s) ==
  [i \in 1..Len(s) |->
     IF \E j \in 1..Len(UpperCase) : UpperCase[j] = s[i]
     THEN LowerCase[CHOOSE j \in 1..Len(UpperCase) : UpperCase[j] = s[i]]
     ELSE s[i]]

\* String.prototype.includes
Includes(s, sub) ==
  \E i \in 0..(Len(s) - Len(sub)) : SubSeq(s, i + 1, i + Len(sub)) = sub

\* String.prototype.endsWith
EndsWith(s, suffix) ==
  /\ Len(s) >= Len(suffix)
  /\ SubSeq(s, Len(s) - Len(suffix) + 1, Len(s)) = suffix

\* The comparison of the default sort: a < b by code units
RECURSIVE StrLess(_, _)
StrLess(a, b) ==
  IF b = <<>> THEN FALSE
  ELSE IF a = <<>> THEN TRUE
  ELSE IF Head(a) = Head(b) THEN StrLess(Tail(a), Tail(b))
  ELSE Code(Head(a)) < Code(Head(b))

\* String.prototype.split with a one-character separator
RECURSIVE Split(_, _)
Split(s, sep) ==
  IF \A i \in 1..Len(s) : s[i] # sep THEN <<s>>
  ELSE LET i == CHOOSE k \in 1..Len(s) :
                  s[k] = sep /\ \A j \in 1..(k - 1) : s[j] # sep
       IN  <<SubSeq(s, 1, i - 1)>> \o Split(SubSeq(s, i + 1, Len(s)), sep)

\* Array.prototype.join
RECURSIVE Join(_, _)
Join(parts, sep) ==
  IF parts = <<>> THEN <<>>
  ELSE IF Len(parts) = 1 THEN parts[1]
  ELSE parts[1] \o sep \o Join(Tail(parts), sep)

\* String.prototype.replace(pattern, "") with a string pattern: only the
\* first occurrence is removed
ReplaceFirst(s, pat) ==
  IF ~Includes(s, pat) THEN s
  ELSE LET i == CHOOSE k \in 0..(Len(s) - Len(pat)) :
                  /\ SubSeq(s, k + 1, k + Len(pat)) = pat
                  /\ \A j \in 0..(k - 1) : SubSeq(s, j + 1, j + Len(pat)) # pat
       IN  SubSeq(s, 1, i) \o SubSeq(s, i + Len(pat) + 1, Len(s))

ArrayMarker == <<"[","]">>

ToSet(seq) == {seq[i] : i \in 1..Len(seq)}

\* ---------------------------------------------------------------- JS values

Undefined == [t |-> "undefined"]
Null == [t |-> "null"]
Str(s) == [t |-> "string", s |-> s]
\* a number, kept as its decimal text
Num(text) == [t |-> "number", n |-> text]
Bool(b) == [t |-> "boolean", b |-> b]
\* an array: its elements and its non-index own properties
Arr(items) == [t |-> "array", items |-> items, e |-> <<>>]
\* a plain object: its own properties in insertion order
Obj(entries) == [t |-> "object", e |-> entries]
\* a built-in function reached through the prototype chain
Builtin(name) == [t |-> "function", name |-> name, e |-> <<>>]

Entry(k, v) == [k |-> k, v |-> v]

\* JavaScript truthiness of the values the code tests
Truthy(v) ==
  /\ v # Undefined
  /\ v # Null
  /\ v # Str(<<>>)
  /\ v # Bool(FALSE)
  /\ v # Num(<<"0">>)

\* ---------------------------------------------------------------- template AST

\* The nodes Handlebars.parse builds.  A field the parser leaves out of a
\* node is Undefined; an array of nodes is kept as [items |-> <<...>>].
Nodes(seq) == [items |-> seq]
PathExpression(original, parts) ==
  [type |-> "PathExpression", original |-> original, parts |-> parts]
StringLiteral(value) == [type |-> "StringLiteral", original |-> value]
SubExpression(path, params) ==
  [type |-> "SubExpression", path |-> path, params |-> Nodes(params),
   program |-> Undefined, inverse |-> Undefined, body |-> Undefined]
MustacheStatement(path, params) ==
  [type |-> "MustacheStatement", path |-> path, params |-> Nodes(params),
   program |-> Undefined, inverse |-> Undefined, body |-> Undefined]
BlockStatement(path, params, program, inverse) ==
  [type |-> "BlockStatement", path |-> path, params |-> Nodes(params),
   program |-> program, inverse |-> inverse, body |-> Undefined]
Program(body) ==
  [type |-> "Program", path |-> Undefined, params |-> Undefined,
   program |-> Undefined, inverse |-> Undefined, body |-> Nodes(body)]
\* ContentStatement, CommentStatement, PartialStatement, and the node types
\* walkAst has no case for (PartialBlockStatement, Decorator)
Leaf(type) ==
  [type |-> type, path |-> Undefined, params |-> Undefined,
   program |-> Undefined, inverse |-> Undefined, body |-> Undefined]

\* Array.isArray on the body of a node of unknown type, which is either one
\* node or an array of nodes
IsArray(body) == "items" \in DOMAIN body

\* `name` or `a.b`: original is the text, parts its dot segments
Path(text) == PathExpression(text, Split(text, "."))

\* ---------------------------------------------------------------- extractor

\* getFieldPath as it would be without the test for `this` and `.`
GetFieldPathOfAnyText(pathNode) ==
  IF pathNode = Undefined \/ pathNode.type # "PathExpression" THEN Null
  ELSE IF Len(pathNode.parts) > 0 THEN Str(Join(pathNode.parts, <<".">>))
  ELSE Str(pathNode.original)

\* getFieldPath: null, or the field path as a string
GetFieldPath(pathNode) ==
  IF pathNode = Undefined \/ pathNode.type # "PathExpression" THEN Null
  ELSE IF pathNode.original = <<"t","h","i","s">> \/ pathNode.original = <<".">> THEN Null
  ELSE IF Len(pathNode.parts) > 0 THEN Str(Join(pathNode.parts, <<".">>))
  ELSE Str(pathNode.original)

Helpers ==
  {<<"i","f">>, <<"u","n","l","e","s","s">>, <<"e","a","c","h">>, <<"w","i","t","h">>, <<"l","o","o","k","u","p">>, <<"l","o","g">>,
   <<"b","l","o","c","k","H","e","l","p","e","r","M","i","s","s","i","n","g">>, <<"h","e","l","p","e","r","M","i","s","s","i","n","g">>}

\* isHelper
IsHelper(fieldPath) == Split(fieldPath, ".")[1] \in Helpers

\* One call of this.extractedFields.add: the path added, the place in
\* walkAst that made the call ("head", "param", "each", "if"), and the
\* literal text of the path expression the path was taken from
Add(path, via, pathNode) ==
  [p |-> path, via |-> via, original |-> pathNode.original]

\* walkAst, MustacheStatement / SubExpression: the head path is added
\* unless getFieldPath gives null or isHelper holds
HeadAdd(pathNode) ==
  IF Truthy(GetFieldPath(pathNode)) /\ ~IsHelper(GetFieldPath(pathNode).s)
  THEN <<Add(GetFieldPath(pathNode).s, "head", pathNode)>>
  ELSE <<>>

HeadAdds(node) ==
  IF node.path # Undefined /\ node.path.type = "PathExpression"
  THEN HeadAdd(node.path)
  ELSE <<>>

\* walkAst, MustacheStatement / SubExpression: a parameter that is a path
\* expression is added unless getFieldPath gives null
ParamAdd(param) ==
  IF param.type = "PathExpression" /\ Truthy(GetFieldPath(param))
  THEN <<Add(GetFieldPath(param).s, "param", param)>>
  ELSE <<>>

\* walkAst, MustacheStatement / SubExpression: node.params.forEach
RECURSIVE ParamAdds(_)
ParamAdds(params) ==
  IF params = Undefined \/ params = Nodes(<<>>) THEN <<>>
  ELSE ParamAdd(Head(params.items)) \o ParamAdds(Nodes(Tail(params.items)))

\* the `each` branch as it would be if it added the path as it stands
EachAddUnmarked(param) ==
  IF Truthy(GetFieldPath(param))
  THEN <<Add(GetFieldPath(param).s, "each", param)>>
  ELSE <<>>

\* walkAst, BlockStatement `each`: the array path, with the array marker
EachAdd(param) ==
  IF Truthy(GetFieldPath(param))
  THEN <<Add(GetFieldPath(param).s \o ArrayMarker, "each", param)>>
  ELSE <<>>

EachAdds(node) == EachAdd(node.params.items[1])

\* walkAst, BlockStatement `if` / `unless`: the condition path
IfAdd(param) ==
  IF Truthy(GetFieldPath(param))
  THEN <<Add(GetFieldPath(param).s, "if", param)>>
  ELSE <<>>

IfAdds(node) ==
  IF node.params # Undefined /\ Len(node.params.items) > 0
  THEN IfAdd(node.params.items[1])
  ELSE <<>>

\* the MustacheStatement / SubExpression branch as it would be if it
\* qualified each path by the context an enclosing `each` passed down
QualifiedBy(context, adds) ==
  [i \in 1..Len(adds) |-> [adds[i] EXCEPT !.p = context \o <<".">> \o @]]

WalkExpressionInContext(node, context) ==
  IF Truthy(context)
  THEN QualifiedBy(context.s, HeadAdds(node) \o ParamAdds(node.params))
  ELSE HeadAdds(node) \o ParamAdds(node.params)

\* walkAst, MustacheStatement / SubExpression: the head path, then the
\* parameters; the context is not used
WalkExpression(node, context) == HeadAdds(node) \o ParamAdds(node.params)

\* walkAst(node, context): the calls of extractedFields.add it makes, in order
RECURSIVE WalkAst(_, _)
RECURSIVE WalkAll(_, _)
WalkAll(nodes, context) ==
  IF nodes = <<>> THEN <<>>
  ELSE WalkAst(Head(nodes), context) \o WalkAll(Tail(nodes), context)

\* a block of another helper as it would be walked if it were treated like
\* `if`: its parameters added, both programs walked
WalkOtherBlockLikeIf(node, context) ==
  ParamAdds(node.params)
  \o (IF node.program # Undefined
      THEN WalkAst(node.program, context) ELSE <<>>)
  \o (IF node.inverse # Undefined
      THEN WalkAst(node.inverse, context) ELSE <<>>)

\* walkAst, BlockStatement of a helper other than each, if, unless: only
\* node.program is walked
WalkOtherBlock(node, context) ==
  IF node.program # Undefined THEN WalkAst(node.program, context) ELSE <<>>

WalkAst(node, context) ==
  IF node = Undefined THEN <<>>
  ELSE CASE node.type = "Program" ->
              IF node.body # Undefined
              THEN WalkAll(node.body.items, context)
              ELSE <<>>
         [] node.type \in {"MustacheStatement", "SubExpression"} ->
              WalkExpression(node, context)
         [] node.type = "BlockStatement" ->
              \* helperName is node.path.original
              (   IF /\ node.path.original = <<"e","a","c","h">>
                     /\ node.params # Undefined
                     /\ Len(node.params.items) > 0
                  THEN EachAdds(node)
                       \o (IF node.program # Undefined
                           THEN WalkAst(node.program,
                                        GetFieldPath(node.params.items[1]))
                           ELSE <<>>)
                  ELSE IF \/ node.path.original = <<"i","f">>
                          \/ node.path.original = <<"u","n","l","e","s","s">>
                  THEN IfAdds(node)
                       \o (IF node.program # Undefined
                           THEN WalkAst(node.program, context) ELSE <<>>)
                       \o (IF node.inverse # Undefined
                           THEN WalkAst(node.inverse, context) ELSE <<>>)
                  ELSE WalkOtherBlock(node, context))
         [] node.type \in {"PartialStatement", "ContentStatement",
                           "CommentStatement"} -> <<>>
         [] OTHER ->
              \* unknown node type: recurse into body, an array or one node
              IF node.body = Undefined THEN <<>>
              ELSE IF IsArray(node.body)
                   THEN WalkAll(node.body.items, context)
                   ELSE WalkAst(node.body, context)

\* a list's push in place of the Set's add
Push(set, x) == Append(set, x)

\* Set.prototype.add on a Set kept in insertion order
SetAdd(set, x) == IF x \in ToSet(set) THEN set ELSE Append(set, x)

\* the Set after a sequence of add calls
RECURSIVE SetAddAll(_, _)
SetAddAll(set, adds) ==
  IF adds = <<>> THEN set
  ELSE SetAddAll(SetAdd(set, Head(adds).p), Tail(adds))

\* Handlebars.parse on a template text.  A text is identified by what the
\* parser makes of it: a syntax error, or an AST.
SyntaxError(id) == [parses |-> FALSE, id |-> id]
Template(body) == [parses |-> TRUE, ast |-> Program(body)]

\* parseTemplate(templateContent): the add calls made on extractedFields;
\* a parse error is caught and nothing is added
ParseTemplate(templateContent) ==
  IF templateContent.parses
  THEN WalkAst(templateContent.ast, Str(<<>>))
  ELSE <<>>


\* ---------------------------------------------------------------- synthesizer

\* The capabilities of the realistic-data provider the module loaded:
\* "rich" is @faker-js/faker, "legacy" the old faker package, "none" no
\* package at all (faker = null).
ProviderKinds == {"none", "rich", "legacy"}

Capabilities(faker) ==
  CASE faker = "rich" ->
         {"person.fullName", "person.firstName", "person.lastName",
          "internet.email", "date.past", "phone.number",
          "location.streetAddress", "location.city", "location.country",
          "location.zipCode", "company.name", "commerce.price",
          "lorem.sentence", "lorem.paragraph", "internet.url", "image.url",
          "string.uuid", "datatype.boolean", "number.int"}
    [] faker = "legacy" ->
         {"name.findName", "name.firstName", "name.lastName",
          "internet.email", "date.past", "phone.phoneNumber",
          "address.streetAddress", "address.city", "address.country",
          "address.zipCode", "company.companyName", "commerce.price",
          "lorem.sentence", "lorem.paragraph", "internet.url",
          "image.imageUrl", "datatype.uuid", "datatype.boolean",
          "datatype.number"}
    [] OTHER -> {}

\* The text a provider call returns: drawn at random by the provider, kept
\* here as one opaque chunk named after the call.
Provided(call) == <<call>>

\* faker.a?.b?.() || faker.c?.d?.() || literal
Chain(faker, rich, legacy, literal) ==
  IF rich \in Capabilities(faker) THEN Provided(rich)
  ELSE IF legacy \in Capabilities(faker) THEN Provided(legacy)
  ELSE literal

\* the decimal text of index + 1 for the indices the assembler uses
IndexPlusOne(index) == <<<<"1","2","3","4","5","6","7","8","9">>[index + 1]>>

\* One `if (...) return ...` of generateValueForField: it matches a name that
\* includes one of `any` and none of `none`, or that equals one of `exact`
Rule(any, none, exact, value) ==
  [any |-> any, none |-> none, exact |-> exact, value |-> value]

Matches(rule, name) ==
  \/ /\ \E k \in rule.any : Includes(name, k)
     /\ \A k \in rule.none : ~Includes(name, k)
  \/ name \in rule.exact

\* The value of the first rule, in source order, that matches; Undefined when
\* none does
FirstMatch(rules, name) ==
  IF \E i \in 1..Len(rules) : Matches(rules[i], name)
  THEN rules[CHOOSE i \in 1..Len(rules) :
               /\ Matches(rules[i], name)
               /\ \A j \in 1..(i - 1) : ~Matches(rules[j], name)].value
  ELSE Undefined

\* sentence.replace(/\.$/, "")
StripPeriod(sentence) ==
  IF EndsWith(sentence, <<".">>)
  THEN SubSeq(sentence, 1, Len(sentence) - 1)
  ELSE sentence

\* faker.lorem?.sentence?.(3) || "Sample Title": the provider's sentence
\* ends with a period
TitleSentence(faker) ==
  IF "lorem.sentence" \in Capabilities(faker)
  THEN Provided("lorem.sentence") \o <<".">>
  ELSE <<"S","a","m","p","l","e"," ","T","i","t","l","e">>

\* generateValueForField, the part guarded by `if (faker)`, in source order.
\* `random` is what Math.random() > 0.5 evaluates to.
ProviderRules(faker, random) ==
  <<Rule({<<"n","a","m","e">>}, {<<"u","s","e","r","n","a","m","e">>}, {},
         Str(Chain(faker, "person.fullName", "name.findName", <<"J","o","h","n"," ","D","o","e">>))),
    Rule({<<"f","i","r","s","t","n","a","m","e">>}, {}, {<<"f","i","r","s","t">>},
         Str(Chain(faker, "person.firstName", "name.firstName", <<"J","o","h","n">>))),
    Rule({<<"l","a","s","t","n","a","m","e">>}, {}, {<<"l","a","s","t">>},
         Str(Chain(faker, "person.lastName", "name.lastName", <<"D","o","e">>))),
    Rule({<<"e","m","a","i","l">>}, {}, {},
         Str(Chain(faker, "internet.email", "internet.email",
                   <<"u","s","e","r","@","e","x","a","m","p","l","e",".","c","o","m">>))),
    \* (faker.date.past() || new Date()).toISOString().split("T")[0]
    Rule({<<"d","a","t","e">>, <<"t","i","m","e">>, <<"c","r","e","a","t","e","d">>, <<"u","p","d","a","t","e","d">>}, {}, {},
         Str(Chain(faker, "date.past", "date.past", Provided("new Date")))),
    Rule({<<"p","h","o","n","e">>, <<"m","o","b","i","l","e">>}, {}, {},
         Str(Chain(faker, "phone.number", "phone.phoneNumber", <<"+","1","-","5","5","5","-","0","1","0","0">>))),
    Rule({<<"a","d","d","r","e","s","s">>}, {}, {},
         Str(Chain(faker, "location.streetAddress", "address.streetAddress",
                   <<"1","2","3"," ","M","a","i","n"," ","S","t">>))),
    Rule({<<"c","i","t","y">>}, {}, {},
         Str(Chain(faker, "location.city", "address.city", <<"N","e","w"," ","Y","o","r","k">>))),
    Rule({<<"c","o","u","n","t","r","y">>}, {}, {},
         Str(Chain(faker, "location.country", "address.country",
                   <<"U","n","i","t","e","d"," ","S","t","a","t","e","s">>))),
    Rule({<<"z","i","p","c","o","d","e">>, <<"p","o","s","t","a","l">>}, {}, {},
         Str(Chain(faker, "location.zipCode", "address.zipCode", <<"1","2","3","4","5">>))),
    Rule({<<"c","o","m","p","a","n","y">>}, {}, {},
         Str(Chain(faker, "company.name", "company.companyName", <<"A","c","m","e"," ","C","o","r","p">>))),
    \* parseFloat(faker.commerce.price() || "99.99")
    Rule({<<"p","r","i","c","e">>, <<"a","m","o","u","n","t">>, <<"c","o","s","t">>}, {}, {},
         Num(Chain(faker, "commerce.price", "commerce.price", <<"9","9",".","9","9">>))),
    Rule({<<"t","i","t","l","e">>}, {}, {}, Str(StripPeriod(TitleSentence(faker)))),
    Rule({<<"d","e","s","c","r","i","p","t","i","o","n">>, <<"c","o","n","t","e","n","t">>, <<"t","e","x","t">>, <<"s","u","m","m","a","r","y">>, <<"f","e","e","d","b","a","c","k">>,
          <<"g","u","i","d","a","n","c","e">>, <<"e","v","i","d","e","n","c","e">>}, {}, {},
         Str(Chain(faker, "lorem.paragraph", "lorem.paragraph",
                   <<"S","a","m","p","l","e"," ","p","a","r","a","g","r","a","p","h"," ","t","e","x","t"," ","c","o","n","t","e","n","t",".">>))),
    Rule({<<"i","t","e","m">>, <<"s","t","r","e","n","g","t","h">>}, {}, {},
         Str(Chain(faker, "lorem.sentence", "lorem.sentence",
                   <<"S","a","m","p","l","e"," ","i","t","e","m"," ","t","e","x","t",".">>))),
    Rule({<<"u","r","l">>, <<"l","i","n","k">>}, {}, {},
         Str(Chain(faker, "internet.url", "internet.url",
                   <<"h","t","t","p","s",":","/","/","e","x","a","m","p","l","e",".","c","o","m">>))),
    Rule({<<"i","m","a","g","e">>, <<"p","h","o","t","o">>}, {}, {},
         Str(Chain(faker, "image.url", "image.imageUrl",
                   <<"h","t","t","p","s",":","/","/","v","i","a",".","p","l","a","c","e","h","o","l","d","e","r",".","c","o","m","/","3","0","0">>))),
    Rule({<<"_","i","d">>}, {}, {<<"i","d">>},
         Str(Chain(faker, "string.uuid", "datatype.uuid",
                   <<"u","u","i","d","-">> \o Provided("Math.random")))),
    \* faker.datatype.boolean() || Math.random() > 0.5
    Rule({<<"i","s">>, <<"h","a","s">>, <<"a","c","t","i","v","e">>}, {}, {}, Bool(random)),
    Rule({<<"c","o","u","n","t">>, <<"n","u","m","b","e","r">>, <<"q","t","y">>}, {}, {},
         Num(Chain(faker, "number.int", "datatype.number", <<"4","2">>)))>>

\* the fallback as it would be without the line for `date`
FallbackRulesWithoutDate(fieldName, index) ==
  <<Rule({<<"n","a","m","e">>}, {}, {}, Str(<<"S","a","m","p","l","e"," ","N","a","m","e"," ">> \o IndexPlusOne(index))),
    Rule({<<"e","m","a","i","l">>}, {}, {},
         Str(<<"u","s","e","r">> \o IndexPlusOne(index) \o <<"@","e","x","a","m","p","l","e",".","c","o","m">>)),
    Rule({<<"p","h","o","n","e">>}, {}, {}, Str(<<"+","1"," ","(","5","5","5",")"," ","1","2","3","-","4","5","6","7">>)),
    Rule({<<"t","i","t","l","e">>}, {}, {}, Str(<<"S","a","m","p","l","e"," ","T","i","t","l","e"," ">> \o IndexPlusOne(index))),
    Rule({<<"d","e","s","c","r","i","p","t","i","o","n">>, <<"t","e","x","t">>, <<"c","o","n","t","e","n","t">>, <<"s","u","m","m","a","r","y">>, <<"f","e","e","d","b","a","c","k">>}, {}, {},
         Str(<<"S","a","m","p","l","e"," ">> \o fieldName \o
             <<" ","t","e","x","t"," ","c","o","n","t","e","n","t"," ","g","o","e","s"," ","h","e","r","e","."," ","T","h","i","s"," ","i","s"," ","a"," ","p","l","a","c","e","h","o","l","d","e","r"," ","t","h","a","t"," ","d","e","m","o","n","s","t","r","a","t","e","s"," ","t","h","e"," ","e","x","p","e","c","t","e","d"," ","f","o","r","m","a","t",".">>)),
    Rule({<<"p","r","i","c","e">>, <<"a","m","o","u","n","t">>}, {}, {}, Num(<<"9","9",".","9","9">>)),
    Rule({<<"i","d">>}, {}, {}, Str(<<"i","d","_">> \o Provided("Math.random"))),
    Rule({<<"u","r","l">>}, {}, {}, Str(<<"h","t","t","p","s",":","/","/","e","x","a","m","p","l","e",".","c","o","m">>)),
    Rule({<<>>}, {}, {}, Str(<<"S","a","m","p","l","e"," ">> \o fieldName))>>

\* generateValueForField, the fallback after the `if (faker)` block, in
\* source order; the last line is the default and matches every name
FallbackRules(fieldName, index) ==
  <<Rule({<<"n","a","m","e">>}, {}, {}, Str(<<"S","a","m","p","l","e"," ","N","a","m","e"," ">> \o IndexPlusOne(index))),
    Rule({<<"e","m","a","i","l">>}, {}, {},
         Str(<<"u","s","e","r">> \o IndexPlusOne(index) \o <<"@","e","x","a","m","p","l","e",".","c","o","m">>)),
    Rule({<<"d","a","t","e">>}, {}, {}, Str(<<"2","0","2","4","-","0","1","-","1","5">>)),
    Rule({<<"p","h","o","n","e">>}, {}, {}, Str(<<"+","1"," ","(","5","5","5",")"," ","1","2","3","-","4","5","6","7">>)),
    Rule({<<"t","i","t","l","e">>}, {}, {}, Str(<<"S","a","m","p","l","e"," ","T","i","t","l","e"," ">> \o IndexPlusOne(index))),
    Rule({<<"d","e","s","c","r","i","p","t","i","o","n">>, <<"t","e","x","t">>, <<"c","o","n","t","e","n","t">>, <<"s","u","m","m","a","r","y">>, <<"f","e","e","d","b","a","c","k">>}, {}, {},
         Str(<<"S","a","m","p","l","e"," ">> \o fieldName \o
             <<" ","t","e","x","t"," ","c","o","n","t","e","n","t"," ","g","o","e","s"," ","h","e","r","e","."," ","T","h","i","s"," ","i","s"," ","a"," ","p","l","a","c","e","h","o","l","d","e","r"," ","t","h","a","t"," ","d","e","m","o","n","s","t","r","a","t","e","s"," ","t","h","e"," ","e","x","p","e","c","t","e","d"," ","f","o","r","m","a","t",".">>)),
    Rule({<<"p","r","i","c","e">>, <<"a","m","o","u","n","t">>}, {}, {}, Num(<<"9","9",".","9","9">>)),
    Rule({<<"i","d">>}, {}, {}, Str(<<"i","d","_">> \o Provided("Math.random"))),
    Rule({<<"u","r","l">>}, {}, {}, Str(<<"h","t","t","p","s",":","/","/","e","x","a","m","p","l","e",".","c","o","m">>)),
    Rule({<<>>}, {}, {}, Str(<<"S","a","m","p","l","e"," ">> \o fieldName))>>

\* generateValueForField, after name = fieldName.toLowerCase()
ValueForName(faker, fieldName, name, index, random) ==
  IF faker # "none" /\ FirstMatch(ProviderRules(faker, random), name) # Undefined
  THEN FirstMatch(ProviderRules(faker, random), name)
  ELSE FirstMatch(FallbackRules(fieldName, index), name)

\* generateValueForField(fieldName, index)
GenerateValueForField(faker, fieldName, index, random) ==
  ValueForName(faker, fieldName, ToLowerCase(fieldName), index, random)

\* ---------------------------------------------------------------- objects

\* typeof v === "object" || typeof v === "function", v not null: the values
\* that have properties
IsObjectLike(v) == v.t \in {"object", "array", "function"}

\* Keys a value inherits from Object.prototype, Array.prototype and
\* Function.prototype (those a template field name may plausibly collide with)
InheritedKeys(v) ==
  {<<"c","o","n","s","t","r","u","c","t","o","r">>, <<"t","o","S","t","r","i","n","g">>, <<"v","a","l","u","e","O","f">>, <<"h","a","s","O","w","n","P","r","o","p","e","r","t","y">>}
  \cup (IF v.t = "array"
        THEN {<<"m","a","p">>, <<"f","i","l","t","e","r">>, <<"j","o","i","n">>, <<"s","o","r","t">>, <<"k","e","y","s">>, <<"v","a","l","u","e","s">>}
        ELSE {})
  \cup (IF v.t = "function" THEN {<<"c","a","l","l">>, <<"a","p","p","l","y">>, <<"b","i","n","d">>} ELSE {})

\* the key of array index i (0-based), for the lengths the model builds
IndexKey(i) == <<<<"0","1","2","3","4","5","6","7","8","9">>[i + 1]>>

OwnKeys(v) ==
  CASE v.t = "object" -> {v.e[i].k : i \in 1..Len(v.e)}
    [] v.t = "array" ->
         {IndexKey(i) : i \in 0..(Len(v.items) - 1)} \cup {<<"l","e","n","g","t","h">>}
         \cup {v.e[i].k : i \in 1..Len(v.e)}
    [] v.t = "function" -> {<<"n","a","m","e">>, <<"l","e","n","g","t","h">>, <<"p","r","o","t","o","t","y","p","e">>}
    [] OTHER -> {}

\* whether v has the property key, own or inherited
HasProperty(v, key) == key \in OwnKeys(v) \cup InheritedKeys(v)

\* `key in v`: a TypeError when v is null, undefined or a primitive
In(key, v) ==
  IF ~IsObjectLike(v) THEN "TypeError"
  ELSE IF HasProperty(v, key) THEN "true"
  ELSE "false"

\* v[key]
GetProp(v, key) ==
  IF \E i \in 1..Len(v.e) : v.e[i].k = key
  THEN v.e[CHOOSE i \in 1..Len(v.e) : v.e[i].k = key].v
  ELSE IF v.t = "function" /\ key = <<"n","a","m","e">> THEN Str(v.name)
  ELSE IF v.t = "function" /\ key = <<"l","e","n","g","t","h">> THEN Num(<<"1">>)
  ELSE IF v.t = "function" /\ key = <<"p","r","o","t","o","t","y","p","e">> THEN Obj(<<>>)
  ELSE IF v.t = "array" /\ key = <<"l","e","n","g","t","h">>
  THEN Num(IndexKey(Len(v.items)))
  ELSE IF v.t = "array" /\ \E i \in 0..(Len(v.items) - 1) : IndexKey(i) = key
  THEN v.items[(CHOOSE i \in 0..(Len(v.items) - 1) : IndexKey(i) = key) + 1]
  ELSE IF key \in InheritedKeys(v) THEN Builtin(key)
  ELSE Undefined

\* Whether `v[key] = value` throws in strict mode (class bodies are strict):
\* a property cannot be created on a primitive, nor a string assigned to an
\* array's length, nor a function's read-only name or length be written
AssignThrows(v, key) ==
  \/ ~IsObjectLike(v)
  \/ v.t = "array" /\ key = <<"l","e","n","g","t","h">>
  \/ v.t = "function" /\ key \in {<<"n","a","m","e">>, <<"l","e","n","g","t","h">>}

\* `v[key] = value` when it does not throw: an own property is replaced in
\* place, a new one is appended (insertion order); an array index replaces the
\* element.  A property written on a built-in function lands on the shared
\* built-in, so the value reached from the document is unchanged.
SetProp(v, key, value) ==
  IF v.t = "function" THEN v
  ELSE IF v.t = "array" /\ \E i \in 0..(Len(v.items) - 1) : IndexKey(i) = key
  THEN [v EXCEPT !.items[(CHOOSE i \in 0..(Len(v.items) - 1) :
                            IndexKey(i) = key) + 1] = value]
  ELSE IF \E i \in 1..Len(v.e) : v.e[i].k = key
  THEN [v EXCEPT !.e[CHOOSE i \in 1..Len(v.e) : v.e[i].k = key].v = value]
  ELSE [v EXCEPT !.e = Append(@, Entry(key, value))]

\* Outcome of a call that may throw: the object as the call left it
Returned(obj) == [threw |-> FALSE, obj |-> obj]
Thrown(obj) == [threw |-> TRUE, obj |-> obj]

\* setNestedValue(obj, path, value).  The loop descends through path[0..n-2]
\* creating missing levels; `key in current` throws on a primitive, and so
\* does the final assignment.  What was written before a throw stays written.
RECURSIVE SetNestedValue(_, _, _)

\* the loop body for path[i] = key once `key in current` has not thrown, and
\* the rest of the call below current[key]
Descend(made, key, below) ==
  IF below.threw
  THEN Thrown(IF key \in OwnKeys(made) /\ key # <<"l","e","n","g","t","h">>
              THEN SetProp(made, key, below.obj) ELSE made)
  ELSE Returned(IF key \in OwnKeys(made) /\ key # <<"l","e","n","g","t","h">>
                THEN SetProp(made, key, below.obj) ELSE made)

DescendInto(made, key, path, value) ==
  Descend(made, key, SetNestedValue(GetProp(made, key), Tail(path), value))

SetNestedValue(current, path, value) ==
  IF Len(path) = 1
  THEN IF AssignThrows(current, path[1]) THEN Thrown(current)
       ELSE Returned(SetProp(current, path[1], value))
  ELSE IF In(path[1], current) = "TypeError" THEN Thrown(current)
  ELSE IF In(path[1], current) = "false"
  THEN DescendInto(SetProp(current, path[1], Obj(<<>>)), path[1], path, value)
  ELSE DescendInto(current, path[1], path, value)

\* Array.from(set).sort(): each element goes before the first greater one
Insert(x, sorted) ==
  SubSeq(sorted, 1, Cardinality({i \in 1..Len(sorted) : StrLess(sorted[i], x)}))
  \o <<x>>
  \o SubSeq(sorted,
            Cardinality({i \in 1..Len(sorted) : StrLess(sorted[i], x)}) + 1,
            Len(sorted))

\* Array.from(this.extractedFields) without the sort
InsertionOrder(seq) == seq

RECURSIVE SortStrings(_)
SortStrings(seq) ==
  IF seq = <<>> THEN <<>> ELSE Insert(Head(seq), SortStrings(Tail(seq)))

\* the value generated for a field, had the array items all been generated
\* with the default index
SampleValueOfOneIndex(faker, isArray, leaf, random) ==
  IF isArray
  THEN Arr(<<GenerateValueForField(faker, leaf, 0, random),
             GenerateValueForField(faker, leaf, 0, random),
             GenerateValueForField(faker, leaf, 0, random)>>)
  ELSE GenerateValueForField(faker, leaf, 0, random)

\* generateSampleData, the value generated for a field: three values for an
\* array, one otherwise, from the last part of the path
SampleValue(faker, isArray, leaf, random) ==
  IF isArray
  THEN Arr(<<GenerateValueForField(faker, leaf, 0, random),
             GenerateValueForField(faker, leaf, 1, random),
             GenerateValueForField(faker, leaf, 2, random)>>)
  ELSE GenerateValueForField(faker, leaf, 0, random)

SetParts(faker, sampleData, isArray, parts, random) ==
  SetNestedValue(sampleData, parts,
                 SampleValue(faker, isArray, parts[Len(parts)], random))

\* generateSampleData, the body of sortedFields.forEach for one fieldPath
SetField(faker, sampleData, fieldPath, random) ==
  IF EndsWith(fieldPath, ArrayMarker)
  THEN SetParts(faker, sampleData, TRUE,
                Split(SubSeq(fieldPath, 1, Len(fieldPath) - 2), "."), random)
  ELSE SetParts(faker, sampleData, FALSE, Split(fieldPath, "."), random)

RECURSIVE SetFields(_, _, _, _)

SetRest(faker, r, sortedFields, random) ==
  IF r.threw THEN r ELSE SetFields(faker, r.obj, sortedFields, random)

SetFields(faker, sampleData, sortedFields, random) ==
  IF sortedFields = <<>> THEN Returned(sampleData)
  ELSE SetRest(faker, SetField(faker, sampleData, Head(sortedFields), random),
               Tail(sortedFields), random)

\* generateSampleData(): this.sampleData after the call, and whether it threw
GenerateSampleData(faker, extractedFields, sampleData, random) ==
  SetFields(faker, sampleData, SortStrings(extractedFields), random)

\* getDefaultSampleJson
GetDefaultSampleJson ==
  Obj(<<Entry(<<"t","i","t","l","e">>, Str(<<"S","a","m","p","l","e"," ","D","o","c","u","m","e","n","t">>)),
        Entry(<<"c","o","n","t","e","n","t">>,
              Str(<<"T","h","i","s"," ","i","s"," ","s","a","m","p","l","e"," ","c","o","n","t","e","n","t","."," ","R","e","p","l","a","c","e"," ","w","i","t","h"," ","y","o","u","r"," ","a","c","t","u","a","l"," ","d","a","t","a",".">>)),
        Entry(<<"i","t","e","m","s">>, Arr(<<Str(<<"S","a","m","p","l","e"," ","i","t","e","m"," ","1">>), Str(<<"S","a","m","p","l","e"," ","i","t","e","m"," ","2">>),
                              Str(<<"S","a","m","p","l","e"," ","i","t","e","m"," ","3">>)>>))>>)


\* ---------------------------------------------------------------- template files

\* The file names both generateSampleJson and getRequiredFields read, in order
TemplateFiles == <<<<"m","a","i","n",".","h","t","m","l">>, <<"h","e","a","d","e","r",".","h","t","m","l">>, <<"f","o","o","t","e","r",".","h","t","m","l">>>>

\* A file of a template folder: a template text, or one of
Absent == [parses |-> FALSE, id |-> "absent"]          \* existsSync is false
Unreadable == [parses |-> FALSE, id |-> "unreadable"]  \* readFileSync throws

Folder(main, header, footer) ==
  [f \in ToSet(TemplateFiles) |->
     IF f = <<"m","a","i","n",".","h","t","m","l">> THEN main
     ELSE IF f = <<"h","e","a","d","e","r",".","h","t","m","l">> THEN header
     ELSE footer]

\* path.join(templatePath, filename) throws a TypeError unless templatePath
\* is a string
PathJoinThrows(templatePath) == templatePath.t # "string"

\* fs.existsSync(path.join(templatePath, filename))
FileExists(disk, templatePath, filename) ==
  /\ templatePath \in DOMAIN disk
  /\ disk[templatePath][filename] # Absent

\* The loop as it would be if a file that cannot be read or parsed ended it
RECURSIVE ParseFilesUntilError(_, _, _)
ParseFilesUntilError(disk, templatePath, filenames) ==
  IF filenames = <<>> THEN <<>>
  ELSE IF ~FileExists(disk, templatePath, Head(filenames))
  THEN ParseFilesUntilError(disk, templatePath, Tail(filenames))
  ELSE IF disk[templatePath][Head(filenames)] = Unreadable THEN <<>>
  ELSE IF ~disk[templatePath][Head(filenames)].parses THEN <<>>
  ELSE ParseTemplate(disk[templatePath][Head(filenames)])
       \o ParseFilesUntilError(disk, templatePath, Tail(filenames))

\* The loop over templateFiles shared by generateSampleJson and
\* getRequiredFields: the add calls made on extractedFields.  A missing file
\* is skipped; a read error is caught; parseTemplate catches a parse error.
RECURSIVE ParseFiles(_, _, _)
ParseFiles(disk, templatePath, filenames) ==
  IF filenames = <<>> THEN <<>>
  ELSE LET filename == Head(filenames)
           adds == IF ~FileExists(disk, templatePath, filename) THEN <<>>
                   ELSE IF disk[templatePath][filename] = Unreadable THEN <<>>
                   ELSE ParseTemplate(disk[templatePath][filename])
       IN  adds \o ParseFiles(disk, templatePath, Tail(filenames))

\* The outcome of getRequiredFields once the loop has run: the Set returned
\* is this.extractedFields itself
Extracted(adds) ==
  [threw |-> FALSE, caught |-> FALSE, adds |-> adds,
   value |-> SetAddAll(<<>>, adds), extractedFields |-> SetAddAll(<<>>, adds)]

\* SampleJsonGenerator.getRequiredFields(templatePath): the Set returned,
\* this.extractedFields afterwards, the add calls made, whether the outer
\* catch ran and whether an exception reached the caller.  path.join throws
\* after the Set was reset, and the catch returns a new empty Set.
GetRequiredFieldsOf(disk, templatePath) ==
  IF PathJoinThrows(templatePath)
  THEN [threw |-> FALSE, caught |-> TRUE, adds |-> <<>>, value |-> <<>>,
        extractedFields |-> <<>>]
  ELSE Extracted(ParseFiles(disk, templatePath, TemplateFiles))

\* generateSampleJson after the loop as it would be without the outer catch
GeneratedUncaught(adds, built) ==
  [threw |-> built.threw, caught |-> FALSE, adds |-> adds,
   value |-> IF built.threw THEN Undefined ELSE built.obj,
   extractedFields |-> SetAddAll(<<>>, adds), sampleData |-> built.obj]

\* generateSampleJson after the loop: generateSampleData() and the return,
\* or the catch and getDefaultSampleJson()
Generated(adds, built) ==
  [threw |-> FALSE, caught |-> built.threw, adds |-> adds,
   value |-> IF built.threw THEN GetDefaultSampleJson ELSE built.obj,
   extractedFields |-> SetAddAll(<<>>, adds), sampleData |-> built.obj]

GenerateFrom(faker, adds, random) ==
  Generated(adds, GenerateSampleData(faker, SetAddAll(<<>>, adds), Obj(<<>>),
                                     random))

\* SampleJsonGenerator.generateSampleJson(templatePath): the document
\* returned, this.extractedFields and this.sampleData afterwards, the add
\* calls made, whether the outer catch ran and whether an exception reached
\* the caller
GenerateSampleJsonOf(faker, disk, templatePath, random) ==
  IF PathJoinThrows(templatePath)
  THEN [threw |-> FALSE, caught |-> TRUE, adds |-> <<>>,
        value |-> GetDefaultSampleJson,
        extractedFields |-> <<>>, sampleData |-> Obj(<<>>)]
  ELSE GenerateFrom(faker, ParseFiles(disk, templatePath, TemplateFiles), random)

\* ---------------------------------------------------------------- validator

\* typeof
TypeOf(v) == IF v.t \in {"object", "array", "null"} THEN "object" ELSE v.t

\* the loop over parts as it would be with `part in current` alone
RECURSIVE FieldExistsUnguarded(_, _)
FieldExistsUnguarded(current, parts) ==
  IF parts = <<>> THEN "exists"
  ELSE IF In(Head(parts), current) = "TypeError" THEN "throws"
  ELSE IF In(Head(parts), current) = "true"
  THEN FieldExistsUnguarded(GetProp(current, Head(parts)), Tail(parts))
  ELSE "missing"

\* validateJSON, the loop over parts: whether the field exists in json.
\* The test `current && typeof current === "object"` keeps `part in current`
\* from being evaluated, and from throwing, on null and on primitives.
RECURSIVE FieldExists(_, _)
FieldExists(current, parts) ==
  IF parts = <<>> THEN "exists"
  ELSE IF Truthy(current) /\ TypeOf(current) = "object"
       THEN IF In(Head(parts), current) = "TypeError" THEN "throws"
            ELSE IF In(Head(parts), current) = "true"
            THEN FieldExists(GetProp(current, Head(parts)), Tail(parts))
            ELSE "missing"
       ELSE "missing"

\* validateJSON, the body of the loop over requiredFields for one fieldPath:
\* cleanPath = fieldPath.replace("[]", ""), parts = cleanPath.split(".")
FieldFound(fieldPath, json) ==
  FieldExists(json, Split(ReplaceFirst(fieldPath, ArrayMarker), "."))

\* missingFields.push(fieldPath) unless the field was found; nothing is
\* returned once a check has thrown
Collect(fieldPath, found, rest) ==
  IF found = "throws" THEN Thrown(<<>>)
  ELSE IF rest.threw THEN rest
  ELSE IF found = "missing" THEN Returned(<<fieldPath>> \o rest.obj)
  ELSE rest

\* validateJSON, the loop over requiredFields: the missing ones, in the
\* Set's iteration order
RECURSIVE MissingFields(_, _)
MissingFields(requiredFields, json) ==
  IF requiredFields = <<>> THEN Returned(<<>>)
  ELSE Collect(Head(requiredFields), FieldFound(Head(requiredFields), json),
               MissingFields(Tail(requiredFields), json))

\* validateJSON, the value returned
ValidationResult(missingFields) ==
  IF missingFields.threw
  THEN [threw |-> TRUE, valid |-> FALSE, missingFields |-> <<>>]
  ELSE [threw |-> FALSE, valid |-> Len(missingFields.obj) = 0,
        missingFields |-> missingFields.obj]

\* TemplateManager.validateJSON(json), given the Set getRequiredFields returned
ValidateJSONOf(requiredFields, json) ==
  ValidationResult(MissingFields(requiredFields, json))

\* ---------------------------------------------------------------- inputs

\* {{text}}
Ref(text) == MustacheStatement(Path(text), <<>>)
\* text between the mustaches
Content == Leaf("ContentStatement")
\* {{#helper param}}program{{/helper}}
Block(helper, params, program) ==
  BlockStatement(Path(helper), params, Program(program), Undefined)
\* {{#helper param}}program{{else}}inverse{{/helper}}
BlockElse(helper, params, program, inverse) ==
  BlockStatement(Path(helper), params, Program(program), Program(inverse))

\* {{title}} {{#each items}}{{name}}{{/each}} {{#if active}}{{description}}{{/if}}
TextScenarioA ==
  Template(<<Ref(<<"t","i","t","l","e">>), Content,
             Block(<<"e","a","c","h">>, <<Path(<<"i","t","e","m","s">>)>>, <<Ref(<<"n","a","m","e">>)>>),
             Content,
             Block(<<"i","f">>, <<Path(<<"a","c","t","i","v","e">>)>>, <<Ref(<<"d","e","s","c","r","i","p","t","i","o","n">>)>>)>>)

\* {{#if title}}  (the block is never closed)
TextUnclosed == SyntaxError("unclosed block")

\* {{title}} {{/each}}
TextStrayClose == SyntaxError("stray close")

\* {{user}} {{user.name}}
TextPrefix == Template(<<Ref(<<"u","s","e","r">>), Content, Ref(<<"u","s","e","r",".","n","a","m","e">>)>>)

\* {{#each items}}{{this}}{{/each}} {{items.name}}
TextArrayAndField ==
  Template(<<Block(<<"e","a","c","h">>, <<Path(<<"i","t","e","m","s">>)>>,
                   <<MustacheStatement(PathExpression(<<"t","h","i","s">>, <<>>), <<>>)>>),
             Content, Ref(<<"i","t","e","m","s",".","n","a","m","e">>)>>)

\* {{#if items.length}}{{#each items}}{{.}}{{/each}}{{else}}{{title}}{{/if}}
TextLength ==
  Template(<<BlockElse(<<"i","f">>, <<Path(<<"i","t","e","m","s",".","l","e","n","g","t","h">>)>>,
                   <<Block(<<"e","a","c","h">>, <<Path(<<"i","t","e","m","s">>)>>,
                           <<MustacheStatement(PathExpression(<<".">>, <<>>),
                                               <<>>)>>)>>,
                   <<Ref(<<"t","i","t","l","e">>)>>)>>)

\* {{this}} {{./[this]}} {{this.name}} {{@index}}
\* Handlebars keeps a bracketed segment as a literal part: ./[this] is the
\* field called "this" of the current context.
TextSelf ==
  Template(<<MustacheStatement(PathExpression(<<"t","h","i","s">>, <<>>), <<>>), Content,
             MustacheStatement(PathExpression(<<".","/","t","h","i","s">>, <<<<"t","h","i","s">>>>), <<>>),
             Content,
             MustacheStatement(PathExpression(<<"t","h","i","s",".","n","a","m","e">>, <<<<"n","a","m","e">>>>), <<>>),
             Content,
             MustacheStatement(PathExpression(<<"@","i","n","d","e","x">>, <<<<"i","n","d","e","x">>>>), <<>>)>>)

\* {{lookup user "email"}} {{log title}} {{if}}
\* {{#with account}}{{email}}{{else}}{{phone}}{{/with}}
TextHelpers ==
  Template(<<MustacheStatement(Path(<<"l","o","o","k","u","p">>),
                               <<Path(<<"u","s","e","r">>), StringLiteral(<<"e","m","a","i","l">>)>>),
             Content,
             MustacheStatement(Path(<<"l","o","g">>), <<Path(<<"t","i","t","l","e">>)>>), Content,
             Ref(<<"i","f">>), Content,
             BlockElse(<<"w","i","t","h">>, <<Path(<<"a","c","c","o","u","n","t">>)>>, <<Ref(<<"e","m","a","i","l">>)>>,
                   <<Ref(<<"p","h","o","n","e">>)>>)>>)

\* {{#unless active}}{{title}}{{else}}{{description}}{{/unless}}
TextUnless ==
  Template(<<BlockElse(<<"u","n","l","e","s","s">>, <<Path(<<"a","c","t","i","v","e">>)>>, <<Ref(<<"t","i","t","l","e">>)>>,
                   <<Ref(<<"d","e","s","c","r","i","p","t","i","o","n">>)>>)>>)

\* {{a.b}} {{#each c}}{{/each}}
TextScenarioC ==
  Template(<<Ref(<<"a",".","b">>), Content,
             Block(<<"e","a","c","h">>, <<Path(<<"c">>)>>, <<>>)>>)

\* {{title}} {{constructor}}
TextInherited == Template(<<Ref(<<"t","i","t","l","e">>), Content, Ref(<<"c","o","n","s","t","r","u","c","t","o","r">>)>>)

\* {{> logo}} {{! note }} {{#> layout}}x{{/layout}} {{title}} {{title}}
TextPartials ==
  Template(<<Leaf("PartialStatement"), Content, Leaf("CommentStatement"),
             Content, Leaf("PartialBlockStatement"), Content,
             Ref(<<"t","i","t","l","e">>), Content, Ref(<<"t","i","t","l","e">>)>>)

\* {{#each this}}{{name}}{{/each}} {{#each}}{{title}}{{/each}}
\* {{#if (eq status "open")}}{{price}}{{/if}} {{eq status user.email}}
TextEdge ==
  Template(<<Block(<<"e","a","c","h">>, <<PathExpression(<<"t","h","i","s">>, <<>>)>>,
                   <<Ref(<<"n","a","m","e">>)>>),
             Content,
             Block(<<"e","a","c","h">>, <<>>, <<Ref(<<"t","i","t","l","e">>)>>),
             Content,
             Block(<<"i","f">>,
                   <<SubExpression(Path(<<"e","q">>),
                                   <<Path(<<"s","t","a","t","u","s">>), StringLiteral(<<"o","p","e","n">>)>>)>>,
                   <<Ref(<<"p","r","i","c","e">>)>>),
             Content,
             MustacheStatement(Path(<<"e","q">>),
                               <<Path(<<"s","t","a","t","u","s">>), Path(<<"u","s","e","r",".","e","m","a","i","l">>)>>)>>)

\* {{page}} of {{pages}}
TextFooter == Template(<<Ref(<<"p","a","g","e">>), Content, Ref(<<"p","a","g","e","s">>)>>)

\* {{title}} {{user.name}} {{user.email}} {{user.address.city}}
\* {{company.name}} {{#each user.emails}}{{price}}{{/each}}
TextNested ==
  Template(<<Ref(<<"t","i","t","l","e">>), Content, Ref(<<"u","s","e","r",".","n","a","m","e">>), Content,
             Ref(<<"u","s","e","r",".","e","m","a","i","l">>), Content, Ref(<<"u","s","e","r",".","a","d","d","r","e","s","s",".","c","i","t","y">>), Content,
             Ref(<<"c","o","m","p","a","n","y",".","n","a","m","e">>), Content,
             Block(<<"e","a","c","h">>, <<Path(<<"u","s","e","r",".","e","m","a","i","l","s">>)>>, <<Ref(<<"p","r","i","c","e">>)>>)>>)

\* {{firstName}} {{lastName}} {{first}} {{username}} {{candidateName}}
\* {{createdDate}}
TextNames ==
  Template(<<Ref(<<"f","i","r","s","t","N","a","m","e">>), Content, Ref(<<"l","a","s","t","N","a","m","e">>), Content,
             Ref(<<"f","i","r","s","t">>), Content, Ref(<<"u","s","e","r","n","a","m","e">>), Content,
             Ref(<<"c","a","n","d","i","d","a","t","e","N","a","m","e">>), Content, Ref(<<"c","r","e","a","t","e","d","D","a","t","e">>)>>)

\* {{history}} {{phase}} {{isActive}} {{hasItems}} {{total}}
TextFlags ==
  Template(<<Ref(<<"h","i","s","t","o","r","y">>), Content, Ref(<<"p","h","a","s","e">>), Content,
             Ref(<<"i","s","A","c","t","i","v","e">>), Content, Ref(<<"h","a","s","I","t","e","m","s">>), Content,
             Ref(<<"t","o","t","a","l">>)>>)

\* {{designer.name}} {{title}}
TextDesigner == Template(<<Ref(<<"d","e","s","i","g","n","e","r",".","n","a","m","e">>), Content, Ref(<<"t","i","t","l","e">>)>>)

\* a text without a mustache
TextPlain == Template(<<Content>>)

\* The template folders of the model: main.html, header.html, footer.html
Folders ==
  {Folder(TextScenarioA, Absent, Absent),
   Folder(TextScenarioA, TextUnclosed, TextFooter),
   Folder(TextFooter, TextScenarioA, TextUnclosed),
   Folder(TextUnclosed, TextFooter, TextScenarioA),
   Folder(TextUnclosed, TextStrayClose, Absent),
   Folder(TextUnclosed, Absent, Absent),
   Folder(Absent, Absent, Absent),
   Folder(Unreadable, TextFooter, Absent),
   Folder(TextPrefix, Absent, Absent),
   Folder(TextPrefix, TextFooter, TextFooter),
   Folder(TextArrayAndField, Absent, Absent),
   Folder(TextLength, Absent, TextFooter),
   Folder(TextSelf, Absent, Absent),
   Folder(TextHelpers, TextUnless, Absent),
   Folder(TextHelpers, Absent, Absent),
   Folder(TextUnless, TextScenarioA, TextScenarioA),
   Folder(TextScenarioC, Absent, Absent),
   Folder(TextScenarioC, TextUnclosed, TextInherited),
   Folder(TextInherited, Absent, Absent),
   Folder(TextPartials, TextFooter, Absent),
   Folder(TextEdge, Absent, TextPartials),
   Folder(TextNested, TextNames, TextFlags)}

\* The directories of the model: the template folder, an empty directory,
\* and a path at which nothing exists
TemplateDir == Str(<<"/","t","e","m","p","l","a","t","e","s">>)
EmptyDir == Str(<<"/","e","m","p","t","y">>)
NoDir == Str(<<"/","g","o","n","e">>)

\* path.join(__dirname, "template") and path.join(userData, "templates")
BundledDir == Str(<<"/","a","p","p","/","t","e","m","p","l","a","t","e">>)
UserDataTemplates == Str(<<"/","u","s","e","r","D","a","t","a","/","t","e","m","p","l","a","t","e","s">>)

Disk(folder) ==
  [d \in {TemplateDir, EmptyDir} |->
     IF d = TemplateDir THEN folder ELSE Folder(Absent, Absent, Absent)]

\* Documents the renderer may submit for validation, besides the sample
\* document the generator built last and the default sample document
Candidates ==
  {Null, Str(<<"t","e","x","t">>), Num(<<"4","2">>), Arr(<<Str(<<"a">>)>>), Obj(<<>>),
   Obj(<<Entry(<<"a">>, Obj(<<Entry(<<"x">>, Num(<<"1">>))>>))>>),
   Obj(<<Entry(<<"a">>, Num(<<"1">>)), Entry(<<"c">>, Null)>>),
   Obj(<<Entry(<<"a">>, Obj(<<Entry(<<"b">>, Null)>>)), Entry(<<"c">>, Arr(<<>>))>>),
   Obj(<<Entry(<<"u","s","e","r">>, Str(<<"b","o","b">>)), Entry(<<"t","i","t","l","e">>, Str(<<"t">>))>>),
   Obj(<<Entry(<<"t","i","t","l","e">>, Str(<<"t">>)), Entry(<<"i","t","e","m","s">>, Arr(<<Str(<<"a">>)>>))>>)}

\* ---------------------------------------------------------------- state

VARIABLES
  faker,             \* the provider the generator module loaded
  disk,              \* the directories on disk and their template files
  config,            \* ConfigManager.config
  userTemplatePath,  \* TemplateManager.userTemplatePath
  bundledTemplatePath, \* TemplateManager.bundledTemplatePath
  extractedFields,   \* SampleJsonGenerator.extractedFields, in insertion order
  sampleData,        \* SampleJsonGenerator.sampleData
  last,              \* the last call made: its name, argument and outcome
  kept,              \* history: a document and a field set a caller kept
  window,            \* createWindow: how far the start of the application is
  clicks,            \* renderer: each run of sendJSON, its position and locals
  invoked            \* renderer: the ipcRenderer.invoke requests sent, in order

vars == <<faker, disk, config, userTemplatePath, bundledTemplatePath,
          extractedFields, sampleData, last, kept, window, clicks, invoked>>

\* the state of the template manager and the generator
manager == <<faker, disk, config, userTemplatePath, bundledTemplatePath,
             extractedFields, sampleData, last>>

\* the state of the window and its renderer
ui == <<window, clicks, invoked>>

\* the runs of sendJSON the model follows, one for each click on sendBtn
Clicks == {"first click", "second click"}

\* a run of sendJSON that has not started
NotClicked ==
  [pc |-> "idle", parsed |-> FALSE, json |-> Undefined,
   validation |-> Undefined, res |-> Undefined, notification |-> "none"]

\* nothing kept yet
NotKept == [held |-> FALSE]

Init ==
  /\ faker \in ProviderKinds
  /\ disk \in {Disk(folder) : folder \in Folders}
  /\ config = [templatePath |-> Null, firstRun |-> TRUE]
  /\ userTemplatePath = Null
  /\ bundledTemplatePath = Null
  /\ extractedFields = <<>>
  /\ sampleData = Obj(<<>>)
  /\ last = [op |-> "none"]
  /\ kept = [doc |-> NotKept, fields |-> NotKept]
  /\ window = "closed"
  /\ clicks = [c \in Clicks |-> NotClicked]
  /\ invoked = <<>>

\* TemplateManager.validateTemplateFolder
ValidateTemplateFolder(folderPath) ==
  ~(~Truthy(folderPath) \/ folderPath \notin DOMAIN disk)

\* TemplateManager.getTemplatePath
GetTemplatePath ==
  IF ~Truthy(userTemplatePath)
  THEN IF Truthy(config.templatePath) THEN config.templatePath
       ELSE bundledTemplatePath
  ELSE userTemplatePath

\* changeTemplateFolder as it would be if the selected path were written to
\* the configuration before the folder is validated
ChangeTemplateFolderStoresFirst(canceled, selectedPath) ==
  /\ IF ~canceled /\ Truthy(selectedPath)
     THEN /\ config' = [config EXCEPT !.templatePath = selectedPath]
          /\ IF ValidateTemplateFolder(selectedPath)
             THEN /\ userTemplatePath' = selectedPath
                  /\ last' = [op |-> "changeTemplateFolder",
                              canceled |-> canceled,
                              selectedPath |-> selectedPath,
                              value |-> selectedPath]
             ELSE /\ UNCHANGED userTemplatePath
                  /\ last' = [op |-> "changeTemplateFolder",
                              canceled |-> canceled,
                              selectedPath |-> selectedPath,
                              value |-> IF Truthy(userTemplatePath)
                                        THEN userTemplatePath ELSE selectedPath]
     ELSE /\ UNCHANGED <<config, userTemplatePath>>
          /\ last' = [op |-> "changeTemplateFolder", canceled |-> canceled,
                      selectedPath |-> selectedPath, value |-> GetTemplatePath]
  /\ UNCHANGED <<faker, disk, bundledTemplatePath, extractedFields, sampleData>>

\* TemplateManager.changeTemplateFolder once the folder dialog has resolved
\* with { canceled, filePaths }; selectedPath is filePaths[0], undefined
\* when nothing was selected
ChangeTemplateFolderReturns(canceled, selectedPath) ==
  /\ IF ~canceled /\ Truthy(selectedPath)
        /\ ValidateTemplateFolder(selectedPath)
     THEN /\ config' = [config EXCEPT !.templatePath = selectedPath]
          /\ userTemplatePath' = selectedPath
          /\ last' = [op |-> "changeTemplateFolder", canceled |-> canceled,
                      selectedPath |-> selectedPath, value |-> selectedPath]
     ELSE /\ UNCHANGED <<config, userTemplatePath>>
          /\ last' = [op |-> "changeTemplateFolder", canceled |-> canceled,
                      selectedPath |-> selectedPath, value |-> GetTemplatePath]
  /\ UNCHANGED <<faker, disk, bundledTemplatePath, extractedFields, sampleData>>

\* the paths the folder dialog may return
SelectablePaths == {TemplateDir, EmptyDir, NoDir, Undefined}

ChangeTemplateFolder ==
  \E canceled \in BOOLEAN, selectedPath \in SelectablePaths :
    ChangeTemplateFolderReturns(canceled, selectedPath)

\* getSampleJson as it would be if generateSampleJson did not start from a
\* new object: the keys of the document built before stay
Accumulated(old, new) ==
  Obj(new.e \o SelectSeq(old.e, LAMBDA entry :
                          \A i \in 1..Len(new.e) : new.e[i].k # entry.k))

SampleJsonAccumulates(r) ==
  /\ extractedFields' = r.extractedFields
  /\ sampleData' = Accumulated(sampleData, r.sampleData)
  /\ last' = [op |-> "getSampleJson", arg |-> userTemplatePath,
              threw |-> r.threw, caught |-> r.caught, adds |-> r.adds,
              value |-> IF r.caught THEN r.value
                        ELSE Accumulated(sampleData, r.sampleData)]
  /\ UNCHANGED <<faker, disk, config, userTemplatePath, bundledTemplatePath>>

\* TemplateManager.getSampleJson
SampleJsonReturns(r) ==
  /\ extractedFields' = r.extractedFields
  /\ sampleData' = r.sampleData
  /\ last' = [op |-> "getSampleJson", arg |-> userTemplatePath,
              threw |-> r.threw, caught |-> r.caught, adds |-> r.adds,
              value |-> r.value]
  /\ UNCHANGED <<faker, disk, config, userTemplatePath, bundledTemplatePath>>

GetSampleJson ==
  \E random \in BOOLEAN :
    SampleJsonReturns(GenerateSampleJsonOf(faker, disk, userTemplatePath, random))

\* TemplateManager.getRequiredFields
RequiredFieldsReturns(r) ==
  /\ extractedFields' = r.extractedFields
  /\ last' = [op |-> "getRequiredFields", arg |-> userTemplatePath,
              threw |-> r.threw, caught |-> r.caught, adds |-> r.adds,
              fields |-> r.value]
  /\ UNCHANGED <<faker, disk, config, userTemplatePath, bundledTemplatePath,
                 sampleData>>

GetRequiredFields ==
  RequiredFieldsReturns(GetRequiredFieldsOf(disk, userTemplatePath))

\* TemplateManager.validateJSON(json)
ValidateJSONReturns(json, r, v) ==
  /\ extractedFields' = r.extractedFields
  /\ last' = [op |-> "validateJSON", arg |-> json, threw |-> v.threw,
              adds |-> r.adds, required |-> r.value, valid |-> v.valid,
              missingFields |-> v.missingFields]
  /\ UNCHANGED <<faker, disk, config, userTemplatePath, bundledTemplatePath,
                 sampleData>>

Validate(json, r) == ValidateJSONReturns(json, r, ValidateJSONOf(r.value, json))

ValidateJSON ==
  \E json \in Candidates \cup {sampleData, GetDefaultSampleJson} :
    Validate(json, GetRequiredFieldsOf(disk, userTemplatePath))

\* The calls the main process makes on the template manager; no history
\* is recorded
Next ==
  \/ ChangeTemplateFolder /\ UNCHANGED <<kept, ui>>
  \/ GetSampleJson /\ UNCHANGED <<kept, ui>>
  \/ GetRequiredFields /\ UNCHANGED <<kept, ui>>
  \/ ValidateJSON /\ UNCHANGED <<kept, ui>>

Spec == Init /\ [][Next]_vars

\* ---------------------------------------------------------------- history

\* The same calls with a history variable: a caller keeps the object one call
\* of getSampleJson returned and the Set one call of getRequiredFields
\* returned.  `value` is what the object held when it was returned, `now`
\* what it holds, and `current` whether the generator still refers to it
\* (this.sampleData, this.extractedFields).
Keep(templatePath, value, current) ==
  [held |-> TRUE, arg |-> templatePath, value |-> value, now |-> value,
   current |-> current]

\* the object kept, had the generator emptied and refilled the object it
\* refers to in place of making a new one
Reused(k, contents) ==
  IF k.held /\ k.current THEN [k EXCEPT !.now = contents] ELSE k

\* this.sampleData = {} and this.extractedFields = new Set(): the generator
\* refers to a new object, and the one kept is left as it is
Rebound(k, contents) ==
  IF k.held THEN [k EXCEPT !.current = FALSE] ELSE k

\* what becomes of the object kept, or the result of this call kept
KeepOrRebind(keep, k, result, contents) ==
  IF keep /\ ~k.held THEN result ELSE Rebound(k, contents)

KeepingSampleJson ==
  /\ GetSampleJson
  /\ \E keep \in BOOLEAN :
       kept' = [doc |-> KeepOrRebind(keep, kept.doc,
                                     Keep(last'.arg, last'.value, ~last'.caught),
                                     sampleData'),
                fields |-> Rebound(kept.fields, extractedFields')]

KeepingRequiredFields ==
  /\ GetRequiredFields
  /\ \E keep \in BOOLEAN :
       kept' = [kept EXCEPT
                  !.fields = KeepOrRebind(keep, @,
                                          Keep(last'.arg, last'.fields,
                                               ~last'.caught),
                                          extractedFields')]

KeepingValidateJSON ==
  /\ ValidateJSON
  /\ kept' = [kept EXCEPT !.fields = Rebound(@, extractedFields')]

KeepingChangeTemplateFolder == ChangeTemplateFolder /\ UNCHANGED kept

NextHistory ==
  \/ KeepingChangeTemplateFolder /\ UNCHANGED ui
  \/ KeepingSampleJson /\ UNCHANGED ui
  \/ KeepingRequiredFields /\ UNCHANGED ui
  \/ KeepingValidateJSON /\ UNCHANGED ui

\* the folders the calls with history are made on
HistoryFolders ==
  {Folder(TextScenarioA, TextUnclosed, TextFooter),
   Folder(TextPrefix, Absent, Absent)}

InitHistory == Init /\ disk \in {Disk(folder) : folder \in HistoryFolders}

SpecHistory == InitHistory /\ [][NextHistory]_vars


\* ---------------------------------------------------------------- startup

\* validateTemplateFolder on the directories d
FolderExists(d, folderPath) == Truthy(folderPath) /\ folderPath \in DOMAIN d

\* the directories d with directory dir holding the files of folder
WithFolder(d, dir, folder) ==
  [x \in DOMAIN d \cup {dir} |-> IF x = dir THEN folder ELSE d[x]]

\* the files of userData/templates once the files of the bundled folder are
\* copied over what is there
CopiedOver(d, bundled) ==
  [f \in ToSet(TemplateFiles) |->
     IF d[bundled][f] # Absent THEN d[bundled][f]
     ELSE IF UserDataTemplates \in DOMAIN d THEN d[UserDataTemplates][f]
     ELSE Absent]

\* userData/templates after mkdirSync alone
MadeDirectory(d) ==
  IF UserDataTemplates \in DOMAIN d THEN d
  ELSE WithFolder(d, UserDataTemplates, Folder(Absent, Absent, Absent))

\* createFallbackTemplates: the bundled files are copied to
\* userData/templates, whose path is returned; when reading the bundled
\* folder throws, the bundled path is returned
CreateFallbackTemplates(d, bundled) ==
  IF bundled \in DOMAIN d
  THEN [disk |-> WithFolder(d, UserDataTemplates, CopiedOver(d, bundled)),
        path |-> UserDataTemplates]
  ELSE [disk |-> MadeDirectory(d), path |-> bundled]

\* configManager.set("templatePath", made.path) after createFallbackTemplates
FallbackConfigured(cfg, made) ==
  [disk |-> made.disk, config |-> [cfg EXCEPT !.templatePath = made.path],
   path |-> made.path]

\* promptTemplateFolder once its dialogs have resolved: response is the
\* button of the message box, canceled and selectedPath what the folder
\* dialog gave
PromptTemplateFolder(d, cfg, bundled, response, canceled, selectedPath) ==
  IF response = 0 /\ ~canceled /\ FolderExists(d, selectedPath)
  THEN [disk |-> d, config |-> [cfg EXCEPT !.templatePath = selectedPath],
        path |-> selectedPath]
  ELSE FallbackConfigured(cfg, CreateFallbackTemplates(d, bundled))

\* initialize, lines 63 to 78, on the configuration object read at line 53
ConfiguredOrFallback(d, cfg, bundled) ==
  IF FolderExists(d, cfg.templatePath)
  THEN [disk |-> d, config |-> cfg, path |-> cfg.templatePath]
  ELSE FallbackConfigured(cfg, CreateFallbackTemplates(d, bundled))

\* initialize after the prompt of the first run, lines 59 to 78
AfterPrompt(prompted, bundled) ==
  ConfiguredOrFallback(prompted.disk,
                       [prompted.config EXCEPT !.firstRun = FALSE], bundled)

\* initialize returns r.path, and createWindow loads and shows the window
Initialized(r) ==
  /\ disk' = r.disk
  /\ config' = r.config
  /\ userTemplatePath' = r.path
  /\ window' = "shown"
  /\ last' = [op |-> "initialize", threw |-> FALSE, value |-> r.path]

\* initialize throws: createWindow logs the error, and loads and shows the
\* window
InitializeThrew ==
  /\ UNCHANGED <<disk, config, userTemplatePath>>
  /\ window' = "shown"
  /\ last' = [op |-> "initialize", threw |-> TRUE, value |-> Undefined]

\* createWindow up to the first await of initialize that waits for the user:
\* the message box of the first run.  When it is not the first run
\* initialize runs to its end.
CreateWindow ==
  /\ window = "closed"
  /\ bundledTemplatePath' = BundledDir
  /\ IF config.firstRun
     THEN /\ window' = "prompting"
          /\ last' = [op |-> "createWindow"]
          /\ UNCHANGED <<disk, config, userTemplatePath>>
     ELSE Initialized(ConfiguredOrFallback(disk, config, BundledDir))
  /\ UNCHANGED <<faker, extractedFields, sampleData, kept, clicks, invoked>>

\* the dialogs of promptTemplateFolder settle and initialize runs to its end;
\* a dialog promise that rejects makes initialize throw
PromptSettles ==
  /\ window = "prompting"
  /\ \E rejects, canceled \in BOOLEAN, response \in {0, 1},
        selectedPath \in SelectablePaths :
       IF rejects THEN InitializeThrew
       ELSE Initialized(AfterPrompt(
              PromptTemplateFolder(disk, config, bundledTemplatePath,
                                   response, canceled, selectedPath),
              bundledTemplatePath))
  /\ UNCHANGED <<faker, bundledTemplatePath, extractedFields, sampleData,
                 kept, clicks, invoked>>

\* resetToDefaultTemplates
ResetTo(made) ==
  /\ disk' = made.disk
  /\ config' = [config EXCEPT !.templatePath = made.path]
  /\ userTemplatePath' = made.path
  /\ last' = [op |-> "resetToDefaultTemplates", value |-> made.path]

ResetToDefaultTemplates ==
  /\ window = "shown"
  /\ ResetTo(CreateFallbackTemplates(disk, bundledTemplatePath))
  /\ UNCHANGED <<faker, bundledTemplatePath, extractedFields, sampleData,
                 kept, ui>>

\* generatePDF, line 124: the directory the PDF is rendered from
RenderedFrom == GetTemplatePath

\* the application from its start: the window is created, and once it is
\* shown the renderer's requests reach the template manager
NextStartup ==
  \/ CreateWindow
  \/ PromptSettles
  \/ ResetToDefaultTemplates
  \/ window = "shown" /\ ChangeTemplateFolder /\ UNCHANGED <<kept, ui>>
  \/ window = "shown" /\ GetSampleJson /\ UNCHANGED <<kept, ui>>
  \/ window = "shown" /\ ValidateJSON /\ UNCHANGED <<kept, ui>>

\* config.json at the start: none yet, or one a former run wrote
StoredConfigs ==
  {[templatePath |-> Null, firstRun |-> TRUE],
   [templatePath |-> TemplateDir, firstRun |-> FALSE],
   [templatePath |-> NoDir, firstRun |-> FALSE],
   [templatePath |-> UserDataTemplates, firstRun |-> FALSE]}

\* the directories at the start: the bundled folder is there, or is not
StartupDisks ==
  {WithFolder(Disk(Folder(TextDesigner, TextPlain, TextPlain)), BundledDir,
              Folder(TextScenarioA, TextFooter, TextFooter)),
   Disk(Folder(TextDesigner, TextPlain, TextPlain))}

InitStartup ==
  /\ faker = "none"
  /\ disk \in StartupDisks
  /\ config \in StoredConfigs
  /\ userTemplatePath = Null
  /\ bundledTemplatePath = Null
  /\ extractedFields = <<>>
  /\ sampleData = Obj(<<>>)
  /\ last = [op |-> "none"]
  /\ kept = [doc |-> NotKept, fields |-> NotKept]
  /\ window = "closed"
  /\ clicks = [c \in Clicks |-> NotClicked]
  /\ invoked = <<>>

SpecStartup == InitStartup /\ [][NextStartup]_vars


\* ---------------------------------------------------------------- assembly

\* The field paths the templates of the assembly runs are written from
PathPool ==
  <<<<"t","i","t","l","e">>, <<"u","s","e","r">>, <<"u","s","e","r",".","n","a","m","e">>, <<"u","s","e","r",".","e","m","a","i","l">>, <<"i","t","e","m","s","[","]">>,
    <<"i","t","e","m","s",".","n","a","m","e">>, <<"o","r","d","e","r",".","i","t","e","m","s","[","]">>, <<"c","o","n","s","t","r","u","c","t","o","r",".","n","a","m","e">>>>

\* the mustache that yields a field path: {{#each path}}{{/each}} for an
\* array-marked path, {{path}} otherwise
MustacheOf(fieldPath) ==
  IF EndsWith(fieldPath, ArrayMarker)
  THEN Block(<<"e","a","c","h">>, <<Path(SubSeq(fieldPath, 1, Len(fieldPath) - 2))>>, <<>>)
  ELSE Ref(fieldPath)

\* main.html made of the mustaches of the chosen paths
TemplateOf(chosen) ==
  Template([i \in 1..Len(SelectSeq(PathPool, LAMBDA q : q \in chosen)) |->
              MustacheOf(SelectSeq(PathPool, LAMBDA q : q \in chosen)[i])])

\* up to three of the paths
PathSets ==
  {chosen \in SUBSET ToSet(PathPool) : Cardinality(chosen) \in 1..3}

InitAssemble ==
  /\ faker \in ProviderKinds
  /\ disk \in {Disk(Folder(TemplateOf(chosen), Absent, Absent)) :
                 chosen \in PathSets}
  /\ config = [templatePath |-> TemplateDir, firstRun |-> FALSE]
  /\ userTemplatePath = TemplateDir
  /\ bundledTemplatePath = BundledDir
  /\ extractedFields = <<>>
  /\ sampleData = Obj(<<>>)
  /\ last = [op |-> "none"]
  /\ kept = [doc |-> NotKept, fields |-> NotKept]
  /\ window = "shown"
  /\ clicks = [c \in Clicks |-> NotClicked]
  /\ invoked = <<>>

\* get-sample-json and the extraction alone, on each of the templates
NextAssemble ==
  \/ GetSampleJson /\ UNCHANGED <<kept, ui>>
  \/ GetRequiredFields /\ UNCHANGED <<kept, ui>>

SpecAssemble == InitAssemble /\ [][NextAssemble]_vars


\* ---------------------------------------------------------------- renderer

\* What the renderer's JSON.parse makes of the text in jsonInput: a value, or
\* a SyntaxError
Parsed(value) == [parses |-> TRUE, value |-> value]
NotJson == [parses |-> FALSE]

\* The texts typed into jsonInput:
\*   {"title":          (not JSON)
\*   null
\*   {"title":"t"}
\*   {"designer":{"name":"n"},"title":"t"}
JsonInputs ==
  {NotJson,
   Parsed(Null),
   Parsed(Obj(<<Entry(<<"t","i","t","l","e">>, Str(<<"t">>))>>)),
   Parsed(Obj(<<Entry(<<"d","e","s","i","g","n","e","r">>, Obj(<<Entry(<<"n","a","m","e">>, Str(<<"n">>))>>)),
                Entry(<<"t","i","t","l","e">>, Str(<<"t">>))>>))}

\* ipcRenderer.invoke(channel, data), sent by a run of sendJSON
Invoke(channel, click, data) ==
  [channel |-> channel, click |-> click, data |-> data]

\* the promise an invoke returned, settled
Resolved(value) == [settled |-> "resolved", value |-> value]
Rejected == [settled |-> "rejected"]

\* sendJSON returns, having shown a notification
Finish(run, notification) ==
  [run EXCEPT !.pc = "done", !.notification = notification]

\* sendJSON, lines 9 and 12: the text is parsed and validateJSON invoked; a
\* SyntaxError goes to the catch block
SendJSON(c) ==
  /\ window = "shown"
  /\ clicks[c].pc = "idle"
  /\ \E input \in JsonInputs :
       IF input.parses
       THEN /\ clicks' = [clicks EXCEPT ![c] =
                            [@ EXCEPT !.pc = "validating", !.parsed = TRUE,
                                      !.json = input.value]]
            /\ invoked' = Append(invoked,
                                 Invoke("validate-json", c, input.value))
       ELSE /\ clicks' = [clicks EXCEPT ![c] = Finish(@, "Invalid JSON")]
            /\ UNCHANGED invoked
  /\ UNCHANGED <<manager, kept, window>>

\* the handler of validate-json in the main process runs for the request of
\* one run, and the promise of the run settles
HandleValidateJSON(c) ==
  /\ clicks[c].pc = "validating"
  /\ clicks[c].validation = Undefined
  /\ Validate(clicks[c].json, GetRequiredFieldsOf(disk, userTemplatePath))
  /\ clicks' = [clicks EXCEPT ![c].validation =
                  IF last'.threw THEN Rejected
                  ELSE Resolved([valid |-> last'.valid,
                                 missingFields |-> last'.missingFields])]
  /\ UNCHANGED <<kept, window, invoked>>

\* sendJSON after the await of line 12, had line 17 no return
ValidatedWithoutReturn(c, validation) ==
  IF validation.settled = "rejected"
  THEN /\ clicks' = [clicks EXCEPT ![c] = Finish(@, "Invalid JSON")]
       /\ UNCHANGED invoked
  ELSE /\ clicks' = [clicks EXCEPT ![c] =
                       [@ EXCEPT !.pc = "submitting",
                                 !.notification =
                                   IF validation.value.valid THEN "none"
                                   ELSE "Missing required fields"]]
       /\ invoked' = Append(invoked,
                            Invoke("generate-pdf", c, clicks[c].json))

\* sendJSON after the await of line 12, lines 14 to 20: a rejection goes to
\* the catch block, missing fields are notified and the run returns, and
\* otherwise submitJSON is invoked with the same json
Validated(c, validation) ==
  IF validation.settled = "rejected"
  THEN /\ clicks' = [clicks EXCEPT ![c] = Finish(@, "Invalid JSON")]
       /\ UNCHANGED invoked
  ELSE IF ~validation.value.valid
  THEN /\ clicks' = [clicks EXCEPT ![c] = Finish(@, "Missing required fields")]
       /\ UNCHANGED invoked
  ELSE /\ clicks' = [clicks EXCEPT ![c].pc = "submitting"]
       /\ invoked' = Append(invoked,
                            Invoke("generate-pdf", c, clicks[c].json))

ResumeValidated(c) ==
  /\ clicks[c].pc = "validating"
  /\ clicks[c].validation # Undefined
  /\ Validated(c, clicks[c].validation)
  /\ UNCHANGED <<manager, kept, window>>

\* readFileSync of a template file of the directory
Readable(templateDir, filename) ==
  /\ templateDir \in DOMAIN disk
  /\ disk[templateDir][filename] \notin {Absent, Unreadable}

\* generatePDF(data, filePath): the three template files are read from
\* getTemplatePath() and main.html is compiled; whether it throws
GeneratePDFThrows(templateDir) ==
  \/ \E i \in 1..Len(TemplateFiles) : ~Readable(templateDir, TemplateFiles[i])
  \/ ~disk[templateDir][<<"m","a","i","n",".","h","t","m","l">>].parses

\* the handler of generate-pdf: info.designer.name throws when data has no
\* designer, a cancelled save dialog gives "cancelled", and generatePDF
\* gives "ok" or throws
GeneratePdf(data, canceled) ==
  IF ~IsObjectLike(data) \/ ~IsObjectLike(GetProp(data, <<"d","e","s","i","g","n","e","r">>))
  THEN Rejected
  ELSE IF canceled THEN Resolved("cancelled")
  ELSE IF GeneratePDFThrows(GetTemplatePath) THEN Rejected
  ELSE Resolved("ok")

HandleGeneratePdf(c) ==
  /\ clicks[c].pc = "submitting"
  /\ clicks[c].res = Undefined
  /\ \E canceled \in BOOLEAN :
       clicks' = [clicks EXCEPT ![c].res = GeneratePdf(clicks[c].json, canceled)]
  /\ UNCHANGED <<manager, kept, window, invoked>>

\* sendJSON after the await of line 20, lines 22 to 28
Submitted(run) ==
  IF run.res.settled = "rejected" THEN Finish(run, "Invalid JSON")
  ELSE IF run.res.value = "ok" THEN Finish(run, "Saved to")
  ELSE Finish(run, "Error generating PDF")

ResumeSubmitted(c) ==
  /\ clicks[c].pc = "submitting"
  /\ clicks[c].res # Undefined
  /\ clicks' = [clicks EXCEPT ![c] = Submitted(@)]
  /\ UNCHANGED <<manager, kept, window, invoked>>

\* the window is shown with a template folder of two fields; the user clicks
\* sendBtn and changes the template folder
NextRenderer ==
  \/ \E c \in Clicks : SendJSON(c)
  \/ \E c \in Clicks : HandleValidateJSON(c)
  \/ \E c \in Clicks : ResumeValidated(c)
  \/ \E c \in Clicks : HandleGeneratePdf(c)
  \/ \E c \in Clicks : ResumeSubmitted(c)
  \/ ChangeTemplateFolder /\ UNCHANGED <<kept, ui>>

InitRenderer ==
  /\ faker = "none"
  /\ disk = Disk(Folder(TextDesigner, TextPlain, TextPlain))
  /\ config = [templatePath |-> TemplateDir, firstRun |-> FALSE]
  /\ userTemplatePath = TemplateDir
  /\ bundledTemplatePath = BundledDir
  /\ extractedFields = <<>>
  /\ sampleData = Obj(<<>>)
  /\ last = [op |-> "none"]
  /\ kept = [doc |-> NotKept, fields |-> NotKept]
  /\ window = "shown"
  /\ clicks = [c \in Clicks |-> NotClicked]
  /\ invoked = <<>>

SpecRenderer == InitRenderer /\ [][NextRenderer]_vars


\* ---------------------------------------------------------------- properties

\* the segments of a field path, array marker stripped
Segments(fieldPath) ==
  Split(IF EndsWith(fieldPath, ArrayMarker)
        THEN SubSeq(fieldPath, 1, Len(fieldPath) - 2)
        ELSE fieldPath, ".")

\* the value reached by following the segments through a document
RECURSIVE ValueAt(_, _)
ValueAt(doc, parts) ==
  IF parts = <<>> THEN doc
  ELSE IF IsObjectLike(doc) THEN ValueAt(GetProp(doc, Head(parts)), Tail(parts))
  ELSE Undefined

NonNull(v) == v # Undefined /\ v # Null

\* the files of the folder a call read
FilesRead == disk[last.arg]

FileNames == ToSet(TemplateFiles)

\* the paths one template text contributes when extracted alone; a text that
\* does not parse contributes none
AlonePaths(file) ==
  IF file.parses
  THEN {WalkAst(file.ast, Str(<<>>))[i].p :
          i \in 1..Len(WalkAst(file.ast, Str(<<>>)))}
  ELSE {}

\* the same folder with its three texts assigned to the file names otherwise
Reorderings == {p \in [FileNames -> FileNames] : \A f \in FileNames : \E g \in FileNames : p[g] = f}

Permuted(p) ==
  [disk EXCEPT ![last.arg] = [f \in FileNames |-> disk[last.arg][p[f]]]]

\* C1 as stated: assembling the extracted field paths gives a document, and
\* every path leads to a non-null value in it
C1_EveryPathReachable ==
  (last.op = "getSampleJson" /\ last.arg.t = "string") =>
    /\ ~last.caught
    /\ \A i \in 1..Len(extractedFields) :
         NonNull(ValueAt(last.value, Segments(extractedFields[i])))

\* the document validated is one generateSampleData builds from the
\* required fields
AssembledBy(built) == ~built.threw /\ last.arg = built.obj

\* C2 as stated: a document assembled from the required fields passes
\* validation against them
C2_RoundTripValid ==
  (/\ last.op = "validateJSON"
   /\ \E random \in BOOLEAN :
        AssembledBy(GenerateSampleData(faker, last.required, Obj(<<>>), random)))
  => last.valid /\ last.missingFields = <<>>

\* C3: extraction does not throw; a text that fails to parse contributes no
\* path and the other texts contribute what they contribute alone; only
\* unparsable texts give the empty set
C3_ParseFailureIsolated ==
  (last.op = "getRequiredFields" /\ last.arg \in DOMAIN disk) =>
    /\ ~last.threw
    /\ ToSet(last.fields) = UNION {AlonePaths(FilesRead[f]) : f \in FileNames}
    /\ (\A f \in FileNames : ~FilesRead[f].parses) => last.fields = <<>>

C3_Witness ==
  /\ last.op = "getRequiredFields"
  /\ last.arg \in DOMAIN disk
  /\ \E f \in FileNames : FilesRead[f] = TextUnclosed
  /\ \E f \in FileNames : AlonePaths(FilesRead[f]) # {}
  /\ last.fields # <<>>

\* C4: the required fields hold no path twice, are the union of what each
\* text contributes, and are the same set however the texts are ordered
C4_SetStableUnderReordering ==
  (last.op = "getRequiredFields" /\ last.arg \in DOMAIN disk) =>
    /\ \A i, j \in 1..Len(last.fields) :
         last.fields[i] = last.fields[j] => i = j
    /\ \A p \in Reorderings :
         /\ ToSet(GetRequiredFieldsOf(Permuted(p), last.arg).value)
              = ToSet(last.fields)
         /\ Len(GetRequiredFieldsOf(Permuted(p), last.arg).value)
              = Len(last.fields)

C4_Witness ==
  /\ last.op = "getRequiredFields"
  /\ last.arg \in DOMAIN disk
  /\ Len(last.adds) > Len(last.fields)
  /\ \E p \in Reorderings :
       GetRequiredFieldsOf(Permuted(p), last.arg).value # last.fields


SelfTokens == {<<"t","h","i","s">>, <<".">>}

\* C5 as stated: no head path led by a helper name is added, and no
\* extracted path is `this` or `.`
C5_NoSelfTokenPath ==
  last.op = "getRequiredFields" =>
    /\ \A i \in 1..Len(last.adds) :
         last.adds[i].via = "head" => ~IsHelper(last.adds[i].p)
    /\ \A i \in 1..Len(last.fields) : last.fields[i] \notin SelfTokens

\* C5: no head path led by a helper name is added, and no path expression
\* whose literal text is `this` or `.` has a path added for it; the path
\* `this` itself is extracted from `./[this]`
C5_NoSelfTokenText ==
  last.op = "getRequiredFields" =>
    /\ \A i \in 1..Len(last.adds) :
         last.adds[i].via = "head" => ~IsHelper(last.adds[i].p)
    /\ \A i \in 1..Len(last.adds) : last.adds[i].original \notin SelfTokens

C5_Witness ==
  /\ last.op = "getRequiredFields"
  /\ last.arg \in DOMAIN disk
  /\ FilesRead = Folder(TextSelf, Absent, Absent)
  /\ <<"t","h","i","s">> \in ToSet(last.fields)
  /\ <<"n","a","m","e">> \in ToSet(last.fields)

\* C6: the path an `each` block adds for its first parameter ends with the
\* array marker, and the path an `if` or `unless` block adds does not
C6_MarkerOnEachOnly ==
  last.op = "getRequiredFields" =>
    \A i \in 1..Len(last.adds) :
      /\ last.adds[i].via = "each" => EndsWith(last.adds[i].p, ArrayMarker)
      /\ last.adds[i].via = "if" => ~EndsWith(last.adds[i].p, ArrayMarker)

C6_Witness ==
  /\ last.op = "getRequiredFields"
  /\ \E i \in 1..Len(last.adds) : last.adds[i].via = "each"
  /\ \E i \in 1..Len(last.adds) : last.adds[i].via = "if"

\* C7: the template of scenario A yields exactly title, items[], name,
\* active and description; the reference inside the each block is the bare
\* path `name`
C7_ScenarioA ==
  (/\ last.op = "getRequiredFields"
   /\ last.arg \in DOMAIN disk
   /\ FilesRead = Folder(TextScenarioA, Absent, Absent))
  => /\ ToSet(last.fields)
          = {<<"t","i","t","l","e">>, <<"i","t","e","m","s","[","]">>, <<"n","a","m","e">>, <<"a","c","t","i","v","e">>, <<"d","e","s","c","r","i","p","t","i","o","n">>}
     /\ Len(last.fields) = 5

C7_Witness ==
  /\ last.op = "getRequiredFields"
  /\ last.arg \in DOMAIN disk
  /\ FilesRead = Folder(TextScenarioA, Absent, Absent)
  /\ <<"n","a","m","e">> \in ToSet(last.fields)

\* whether every segment is a key the value reached so far holds itself (an
\* array holds its indices and its length)
RECURSIVE KeysPresent(_, _)
KeysPresent(doc, parts) ==
  IF parts = <<>> THEN TRUE
  ELSE /\ doc.t \in {"object", "array"}
       /\ Head(parts) \in OwnKeys(doc)
       /\ KeysPresent(GetProp(doc, Head(parts)), Tail(parts))

AbsentFrom(doc, fieldPath) == ~KeysPresent(doc, Segments(fieldPath))

\* C8 as stated: missingFields is the required paths, in order, whose
\* segments are not all keys present in the document, and valid holds
\* exactly when there is none
C8_MissingByKeyPresence ==
  last.op = "validateJSON" =>
    /\ last.missingFields
         = SelectSeq(last.required, LAMBDA f : AbsentFrom(last.arg, f))
    /\ last.valid <=> last.missingFields = <<>>

\* C9: validation does not throw; against null or a scalar every required
\* path is reported missing, and a path through a scalar is reported missing
C9_ValidationNeverThrows ==
  last.op = "validateJSON" =>
    /\ ~last.threw
    /\ ~IsObjectLike(last.arg) => last.missingFields = last.required
    /\ \A i \in 1..Len(last.required) :
         (/\ Len(Segments(last.required[i])) > 1
          /\ IsObjectLike(last.arg)
          /\ ~IsObjectLike(GetProp(last.arg, Head(Segments(last.required[i])))))
         => last.required[i] \in ToSet(last.missingFields)

C9_Witness ==
  /\ last.op = "validateJSON"
  /\ last.arg = Obj(<<Entry(<<"a">>, Num(<<"1">>)), Entry(<<"c">>, Null)>>)
  /\ last.required = <<<<"a",".","b">>, <<"c","[","]">>>>
  /\ last.missingFields = <<<<"a",".","b">>>>

\* the shape of the default document: title, content, and three strings
IsDefaultDocument(doc) ==
  /\ doc.t = "object"
  /\ [i \in 1..Len(doc.e) |-> doc.e[i].k] = <<<<"t","i","t","l","e">>, <<"c","o","n","t","e","n","t">>, <<"i","t","e","m","s">>>>
  /\ doc.e[1].v.t = "string"
  /\ doc.e[2].v.t = "string"
  /\ doc.e[3].v.t = "array"
  /\ Len(doc.e[3].v.items) = 3
  /\ \A i \in 1..3 : doc.e[3].v.items[i].t = "string"

\* C10: getSampleJson hands no exception to its caller, and when a stage
\* threw the document returned is the default document
C10_DefaultOnFailure ==
  last.op = "getSampleJson" =>
    /\ ~last.threw
    /\ last.caught =>
         last.value = GetDefaultSampleJson /\ IsDefaultDocument(last.value)

C10_Witness ==
  /\ last.op = "getSampleJson"
  /\ last.caught
  /\ last.adds # <<>>
  /\ IsDefaultDocument(last.value)


\* the structure of a document: the key set at every nesting level
RECURSIVE Shape(_)
Shape(v) ==
  CASE v.t = "object" ->
         [t |-> "mapping",
          keys |-> {[k |-> v.e[i].k, s |-> Shape(v.e[i].v)] : i \in 1..Len(v.e)}]
    [] v.t = "array" ->
         [t |-> "sequence",
          keys |-> {[k |-> IndexKey(i - 1), s |-> Shape(v.items[i])] :
                      i \in 1..Len(v.items)}]
    [] OTHER -> [t |-> "scalar", keys |-> {}]

Ranked(paths, i) ==
  CHOOSE x \in ToSet(paths) :
    Cardinality({y \in ToSet(paths) : StrLess(y, x)}) = i - 1

Lexicographic(paths) == [i \in 1..Len(paths) |-> Ranked(paths, i)]

IsPrefix(prefix, parts) ==
  Len(prefix) < Len(parts) /\ SubSeq(parts, 1, Len(prefix)) = prefix

\* the keys under a prefix in the order they first occur in the ordered paths
RECURSIVE FirstOccurrences(_, _, _)
FirstOccurrences(ordered, prefix, seen) ==
  IF ordered = <<>> THEN seen
  ELSE FirstOccurrences(
         Tail(ordered), prefix,
         IF /\ IsPrefix(prefix, Segments(Head(ordered)))
            /\ Segments(Head(ordered))[Len(prefix) + 1] \notin ToSet(seen)
         THEN Append(seen, Segments(Head(ordered))[Len(prefix) + 1])
         ELSE seen)

KeysOf(doc) == [i \in 1..Len(doc.e) |-> doc.e[i].k]

\* whether every mapping of the document has its keys in that order
RECURSIVE KeysInOrder(_, _, _)
KeysInOrder(doc, ordered, prefix) ==
  doc.t = "object" =>
    /\ KeysOf(doc) = FirstOccurrences(ordered, prefix, <<>>)
    /\ \A i \in 1..Len(doc.e) :
         KeysInOrder(doc.e[i].v, ordered, Append(prefix, doc.e[i].k))

\* C13: in the document generateSampleData builds, the keys of every mapping
\* were inserted in the order in which they first occur in the
\* lexicographically sorted field paths
C13_KeysInSortedOrder ==
  (last.op = "getSampleJson" /\ ~last.caught) =>
    KeysInOrder(last.value, Lexicographic(extractedFields), <<>>)

C13_Witness ==
  /\ last.op = "getSampleJson"
  /\ ~last.caught
  /\ KeysOf(last.value)
       = <<<<"c","a","n","d","i","d","a","t","e","N","a","m","e">>, <<"c","o","m","p","a","n","y">>, <<"c","r","e","a","t","e","d","D","a","t","e">>, <<"f","i","r","s","t">>,
           <<"f","i","r","s","t","N","a","m","e">>, <<"h","a","s","I","t","e","m","s">>, <<"h","i","s","t","o","r","y">>, <<"i","s","A","c","t","i","v","e">>, <<"l","a","s","t","N","a","m","e">>,
           <<"p","h","a","s","e">>, <<"p","r","i","c","e">>, <<"t","i","t","l","e">>, <<"t","o","t","a","l">>, <<"u","s","e","r">>, <<"u","s","e","r","n","a","m","e">>>>
  /\ KeysOf(ValueAt(last.value, <<<<"u","s","e","r">>>>))
       = <<<<"a","d","d","r","e","s","s">>, <<"e","m","a","i","l">>, <<"e","m","a","i","l","s">>, <<"n","a","m","e">>>>
  /\ extractedFields # Lexicographic(extractedFields)


LastSegment(fieldPath) == Segments(fieldPath)[Len(Segments(fieldPath))]

\* what the claim expects to be stored for a path: three values made from
\* the last segment with indices 0, 1, 2 when the path is array-marked, one
\* value otherwise
ExpectedValue(fieldPath, random) ==
  IF EndsWith(fieldPath, ArrayMarker)
  THEN Arr([i \in 1..3 |->
              GenerateValueForField(faker, LastSegment(fieldPath), i - 1, random)])
  ELSE GenerateValueForField(faker, LastSegment(fieldPath), 0, random)

\* the write for one path, when it completes, leaves the expected value at
\* the path and a mapping at every earlier segment
StoredBy(written, fieldPath, random) ==
  ~written.threw =>
    /\ ValueAt(written.obj, Segments(fieldPath)) = ExpectedValue(fieldPath, random)
    /\ \A j \in 1..(Len(Segments(fieldPath)) - 1) :
         ValueAt(written.obj, SubSeq(Segments(fieldPath), 1, j)).t = "object"

\* the document the writes for the first k sorted paths leave
WrittenUpTo(k, random) ==
  SetFields(faker, Obj(<<>>), SubSeq(SortStrings(extractedFields), 1, k), random)

FieldNames == {LastSegment(extractedFields[i]) : i \in 1..Len(extractedFields)}

\* the provider's first-name and last-name values
FirstNameValue ==
  Str(IF faker = "rich" THEN Provided("person.firstName")
      ELSE Provided("name.firstName"))

LastNameValue ==
  Str(IF faker = "rich" THEN Provided("person.lastName")
      ELSE Provided("name.lastName"))

\* C15 as stated: with a provider, a field whose lowercase name contains
\* `firstname` gets the provider's first-name value and one containing
\* `lastname` its last-name value
C15_FirstAndLastNameFirst ==
  (last.op = "getSampleJson" /\ faker # "none") =>
    \A fieldName \in FieldNames, random \in BOOLEAN :
      /\ Includes(ToLowerCase(fieldName), <<"f","i","r","s","t","n","a","m","e">>) =>
           GenerateValueForField(faker, fieldName, 0, random) = FirstNameValue
      /\ Includes(ToLowerCase(fieldName), <<"l","a","s","t","n","a","m","e">>) =>
           GenerateValueForField(faker, fieldName, 0, random) = LastNameValue


\* the substrings the fallback of generateValueForField has a category for
FallbackCategories ==
  {<<"n","a","m","e">>, <<"e","m","a","i","l">>, <<"d","a","t","e">>, <<"p","h","o","n","e">>, <<"t","i","t","l","e">>, <<"d","e","s","c","r","i","p","t","i","o","n">>, <<"t","e","x","t">>,
   <<"c","o","n","t","e","n","t">>, <<"s","u","m","m","a","r","y">>, <<"f","e","e","d","b","a","c","k">>, <<"p","r","i","c","e">>, <<"a","m","o","u","n","t">>, <<"i","d">>, <<"u","r","l">>}

NonEmpty(v) ==
  /\ v.t \in {"string", "number", "boolean"}
  /\ v.t = "string" => v.s # <<>>
  /\ v.t = "number" => v.n # <<>>

Fallback(fieldName, index) == GenerateValueForField("none", fieldName, index, FALSE)

\* C16 as stated: without a provider the value is never empty, is
\* `Sample <fieldName>` when no category matches, and is 2024-01-15 for
\* every name containing `date`
C16_FallbackDateForEveryDateName ==
  last.op = "getSampleJson" =>
    \A fieldName \in FieldNames, index \in 0..2 :
      /\ NonEmpty(Fallback(fieldName, index))
      /\ (\A k \in FallbackCategories : ~Includes(ToLowerCase(fieldName), k))
           => Fallback(fieldName, index) = Str(<<"S","a","m","p","l","e"," ">> \o fieldName)
      /\ Includes(ToLowerCase(fieldName), <<"d","a","t","e">>)
           => Fallback(fieldName, index) = Str(<<"2","0","2","4","-","0","1","-","1","5">>)

\* C16: without a provider the value is never empty, is `Sample <fieldName>`
\* when no category matches, and is 2024-01-15 for a name that contains
\* `date` and neither `name` nor `email`, which are tested first
C16_FallbackNeverEmpty ==
  last.op = "getSampleJson" =>
    \A fieldName \in FieldNames, index \in 0..2 :
      /\ NonEmpty(Fallback(fieldName, index))
      /\ (\A k \in FallbackCategories : ~Includes(ToLowerCase(fieldName), k))
           => Fallback(fieldName, index) = Str(<<"S","a","m","p","l","e"," ">> \o fieldName)
      /\ (/\ Includes(ToLowerCase(fieldName), <<"d","a","t","e">>)
          /\ ~Includes(ToLowerCase(fieldName), <<"n","a","m","e">>)
          /\ ~Includes(ToLowerCase(fieldName), <<"e","m","a","i","l">>))
           => Fallback(fieldName, index) = Str(<<"2","0","2","4","-","0","1","-","1","5">>)

C16_Witness ==
  /\ last.op = "getSampleJson"
  /\ ~last.caught
  /\ faker = "none"
  /\ ValueAt(last.value, <<<<"c","r","e","a","t","e","d","D","a","t","e">>>>) = Str(<<"2","0","2","4","-","0","1","-","1","5">>)
  /\ ValueAt(last.value, <<<<"c","a","n","d","i","d","a","t","e","N","a","m","e">>>>) = Str(<<"S","a","m","p","l","e"," ","N","a","m","e"," ","1">>)
  /\ ValueAt(last.value, <<<<"t","o","t","a","l">>>>) = Str(<<"S","a","m","p","l","e"," ","t","o","t","a","l">>)


\* whether a folder exists and holds main.html, header.html and footer.html
HasRequiredFiles(folderPath) ==
  /\ folderPath \in DOMAIN disk
  /\ \A f \in FileNames : disk[folderPath][f] # Absent

\* C17 as stated: a folder validateTemplateFolder accepts holds the three
\* template files, so the template path stored by changeTemplateFolder is
\* never a folder that lacks one of them
C17_StoredFolderHasFiles ==
  last.op = "changeTemplateFolder" =>
    /\ ValidateTemplateFolder(last.value) => HasRequiredFiles(last.value)
    /\ Truthy(userTemplatePath) => HasRequiredFiles(userTemplatePath)
    /\ Truthy(config.templatePath) => HasRequiredFiles(config.templatePath)


\* the nodes at the top of the templates read, and the sub-expressions among
\* their parameters
TopNodes ==
  UNION {ToSet(FilesRead[f].ast.body.items) :
           f \in {g \in FileNames : FilesRead[g].parses}}

ParamsOf(node) ==
  IF node.params = Undefined THEN {} ELSE ToSet(node.params.items)

Expressions ==
  {n \in TopNodes : n.type = "MustacheStatement"}
  \cup {q \in UNION {ParamsOf(n) : n \in TopNodes} : q.type = "SubExpression"}

OtherBlocks ==
  {n \in TopNodes :
     /\ n.type = "BlockStatement"
     /\ n.path.original \notin {<<"e","a","c","h">>, <<"i","f">>, <<"u","n","l","e","s","s">>}}

Contexts == {Str(<<>>), Str(<<"i","t","e","m","s">>), Null}

C19_WrittenValuesStay ==
  (last.op = "getSampleJson" /\ last.arg.t = "string") =>
    \A random \in BOOLEAN, m \in 1..Len(extractedFields) :
      ~WrittenUpTo(m, random).threw =>
        \A k \in 1..m :
          ValueAt(WrittenUpTo(m, random).obj,
                  Segments(SortStrings(extractedFields)[k]))
            = ExpectedValue(SortStrings(extractedFields)[k], random)


BeginsWith(s, prefix) ==
  Len(s) >= Len(prefix) /\ SubSeq(s, 1, Len(prefix)) = prefix

\* C20 as stated: with a provider, only a field whose lowercase name begins
\* with `is`, `has` or `active` gets a boolean
C20_BooleanOnlyForPrefixes ==
  (last.op = "getSampleJson" /\ faker # "none") =>
    \A fieldName \in FieldNames, random \in BOOLEAN :
      GenerateValueForField(faker, fieldName, 0, random).t = "boolean" =>
        \E prefix \in {<<"i","s">>, <<"h","a","s">>, <<"a","c","t","i","v","e">>} :
          BeginsWith(ToLowerCase(fieldName), prefix)


\* whether the folder dialog of the last call gave a folder that passes
\* validateTemplateFolder
SelectionAccepted(call) ==
  /\ ~call.canceled
  /\ call.selectedPath \in DOMAIN disk

\* C22: a call of changeTemplateFolder whose dialog is cancelled or whose
\* selected folder fails validation leaves userTemplatePath and the configured
\* templatePath as they were and returns the current template path; the two
\* change only when the selected folder passes validation, and then to it
C22_RejectedChangeKeepsPath ==
  [][last'.op = "changeTemplateFolder" =>
       IF SelectionAccepted(last')
       THEN /\ userTemplatePath' = last'.selectedPath
            /\ config'.templatePath = last'.selectedPath
            /\ last'.value = last'.selectedPath
       ELSE /\ userTemplatePath' = userTemplatePath
            /\ config' = config
            /\ last'.value = GetTemplatePath]_vars

C22_Witness ==
  /\ last.op = "changeTemplateFolder"
  /\ ~last.canceled
  /\ last.selectedPath = NoDir
  /\ userTemplatePath = TemplateDir
  /\ config.templatePath = TemplateDir
  /\ last.value = TemplateDir


\* the validateJSON promise of a run resolved with valid = true
ResolvedValid(run) ==
  /\ run.validation # Undefined
  /\ run.validation.settled = "resolved"
  /\ run.validation.value.valid

\* the generate-pdf requests a run of sendJSON sent
SubmitsOf(c) ==
  {i \in 1..Len(invoked) :
     invoked[i].channel = "generate-pdf" /\ invoked[i].click = c}

\* C21: a generate-pdf request of a run of sendJSON comes after the run's
\* validate-json request for the same parsed json, whose promise resolved
\* with valid = true; a run whose text is not JSON, or whose validation
\* reported missing fields, sends no generate-pdf request
C21_SubmitOnlyAfterValid ==
  \A c \in Clicks :
    /\ \A i \in SubmitsOf(c) :
         /\ ResolvedValid(clicks[c])
         /\ invoked[i].data = clicks[c].json
         /\ \E j \in 1..(i - 1) :
              invoked[j] = Invoke("validate-json", c, invoked[i].data)
    /\ (clicks[c].pc # "idle" /\ ~clicks[c].parsed) => SubmitsOf(c) = {}
    /\ (clicks[c].validation # Undefined /\ ~ResolvedValid(clicks[c])) =>
         SubmitsOf(c) = {}

C21_Witness ==
  /\ clicks["first click"].notification = "Saved to"
  /\ SubmitsOf("first click") # {}
  /\ clicks["second click"].notification = "Missing required fields"
  /\ SubmitsOf("second click") = {}
  /\ Len(invoked) = 3


\* C23 as stated, for the states in which the renderer can make a request:
\* the directory getSampleJson and validateJSON read is the directory
\* generatePDF renders from
C23_ReadAndRenderedSame ==
  window = "shown" => userTemplatePath = RenderedFrom


\* no path of the sequence, array marker stripped, is a strict dotted prefix
\* of another, and no two paths differ by the array marker alone
NoPathUnderAnother(fields) ==
  \A i, j \in 1..Len(fields) :
    i # j =>
      /\ ~(/\ Len(Segments(fields[i])) < Len(Segments(fields[j]))
           /\ SubSeq(Segments(fields[j]), 1, Len(Segments(fields[i])))
                = Segments(fields[i]))
      /\ Segments(fields[i]) # Segments(fields[j])

\* C24 as stated: for field paths none of which lies under another, the
\* assembly does not throw, the default document is not returned, and the
\* document holds at every path the value generated for it
C24_SeparatePathsAssemble ==
  (/\ last.op = "getSampleJson"
   /\ last.arg.t = "string"
   /\ NoPathUnderAnother(extractedFields)) =>
    /\ ~last.caught
    /\ \E random \in BOOLEAN :
         \A i \in 1..Len(extractedFields) :
           ValueAt(last.value, Segments(extractedFields[i]))
             = ExpectedValue(extractedFields[i], random)


====
